---- MODULE Spec2Model ----
(***************************************************************************)
(* AccessiChef: the RecipeTimer countdown (src/js/utils/timer.js) as a     *)
(* state machine.  The program state is the RecipeTimer object's fields,   *)
(* the browser's live interval schedules and pending timeouts, the text    *)
(* and classes of the display elements, and the log of callback            *)
(* invocations.  Every handler (a public method, an interval firing, a     *)
(* timeout firing) is one atomic action: JavaScript runs each to the end.  *)
(***************************************************************************)
EXTENDS Integers, Sequences, FiniteSets, TLC

\* ------------------------------------------------------------------ bounds

\* startTimer is called with seconds drawn from -1 .. MaxSeconds.
MaxSeconds == 2

\* At most MaxStarts startTimer calls in a behaviour.
MaxStarts == 2

\* At most MaxTimerIds calls of setInterval in a behaviour.
MaxTimerIds == 3

\* A measurement goes through at most MaxConversions converter calls.
MaxConversions == 2

\* The converter is fed every amount k/8 for k in -MaxEighths .. MaxEighths.
MaxEighths == 10

\* formatMeasurement is fed every amount w + t/1000 for w in 0 .. MaxWhole.
MaxWhole == 2

\* loadAllRecipes calls made on a page.
MaxLoads == 3

\* announceToScreenReader calls made.
MaxAnnouncements == 3

\* The time in ms up to which the user acts, and the pause between two acts.
MaxClock == 4000

UserPause == 1000

\* Instructions of a recipe, and the minutes an instruction's timer may have.
MaxSteps == 2

MaxMinutes == 1

\* Ingredients of a recipe, and clicks on the two unit buttons.
MaxIngredients == 2

MaxClicks == 3

\* --------------------------------------------------------------- constants

\* timerInterval: null (interval ids of a browser are positive integers).
NoInterval == 0

\* completionCallback: null.  A callback supplied to the g-th startTimer call
\* is identified by g.
NoCallback == 0

\* currentTimerDisplay: null.
NoDisplay == "null"

\* The two elements the application hands to startTimer.
Displays == {"timer-display", "inline-timer-display"}

\* updateTimerDisplay adds the warning classes at or below this many seconds.
LowTimeThreshold == 10

\* AccessibilityFeatures.textSizeLevel as the object literal sets it.
DefaultTextSize == 2

maxTextSize == 5

minTextSize == 1

\* recipeCache: null.  The array a response delivers is identified by the
\* index of the call that fetched it.
NoCache == 0

\* The delay of announceToScreenReader's outer timeout and the two clear
\* delays, in ms.
SetDelay == 50

PoliteClearDelay == 3000

AssertiveClearDelay == 5000

\* The two live regions initAnnouncementRegions creates.
Regions == {"polite-announcer", "assertive-announcer"}

SecondsInputs == (-1) .. MaxSeconds

Countdowns == 1 .. MaxStarts

VARIABLES
    timerInterval,        \* RecipeTimer.timerInterval
    secondsRemaining,     \* RecipeTimer.secondsRemaining
    currentTimerDisplay,  \* RecipeTimer.currentTimerDisplay
    completionCallback,   \* RecipeTimer.completionCallback
    intervals,            \* browser: ids of the live setInterval schedules
    nextTimerId,          \* browser: the id the next setInterval returns
    timeouts,             \* browser: pending grace-period setTimeout callbacks
    textContent,          \* DOM: textContent of each display element
    classList,            \* DOM: classList of each display element
    invoked,              \* invoked[g]: times the g-th start's callback ran
    played,               \* completion sounds played
    gen,                  \* history: startTimer calls so far
    startedWith,          \* history: seconds argument of the latest startTimer
    startedFrom,          \* history: the timer's state when the latest startTimer was called
    ticks,                \* history: tick firings since the latest startTimer
    pausedSince,          \* history: pauseTimer called since the latest startTimer
    stoppedSince,         \* history: stopTimer called since the latest startTimer
    lastOp,               \* history: the handler that ran last
    queryResult           \* the value the latest isRunning() returned

progVars == <<timerInterval, secondsRemaining, currentTimerDisplay,
              completionCallback, intervals, nextTimerId, timeouts,
              textContent, classList, invoked, played>>

histVars == <<gen, startedWith, startedFrom, ticks, pausedSince, stoppedSince, lastOp,
              queryResult>>

vars == <<progVars, histVars>>

\* The program state as one value, so that a method calling another composes.
Cur ==
    [timerInterval       |-> timerInterval,
     secondsRemaining    |-> secondsRemaining,
     currentTimerDisplay |-> currentTimerDisplay,
     completionCallback  |-> completionCallback,
     intervals           |-> intervals,
     nextTimerId         |-> nextTimerId,
     timeouts            |-> timeouts,
     textContent         |-> textContent,
     classList           |-> classList,
     invoked             |-> invoked,
     played              |-> played]

Becomes(s) ==
    /\ timerInterval' = s.timerInterval
    /\ secondsRemaining' = s.secondsRemaining
    /\ currentTimerDisplay' = s.currentTimerDisplay
    /\ completionCallback' = s.completionCallback
    /\ intervals' = s.intervals
    /\ nextTimerId' = s.nextTimerId
    /\ timeouts' = s.timeouts
    /\ textContent' = s.textContent
    /\ classList' = s.classList
    /\ invoked' = s.invoked
    /\ played' = s.played

\* MeasurementConverter is a stateless object: its state here is the
\* measurement a caller holds, which each call replaces by its result.
VARIABLES
    cvAmount,             \* the amount held: the input, then each call's result
    cvUnit,               \* the unit held
    cvThrew,              \* the latest call raised instead of returning
    cvText,               \* the string the latest formatMeasurement returned
    cvPath,               \* history: the calls made so far, in order
    cvFromAmount,         \* history: the amount argument of the latest call
    cvFromUnit,           \* history: the unit argument of the latest call
    cvOrigAmount,         \* history: the amount first held
    cvOrigUnit            \* history: the unit first held

convVars == <<cvAmount, cvUnit, cvThrew, cvText, cvPath, cvFromAmount, cvFromUnit,
              cvOrigAmount, cvOrigUnit>>

\* AccessibilityFeatures: the preference fields, the two localStorage items
\* and what the preferences write to the page.
VARIABLES
    textSizeLevel,        \* AccessibilityFeatures.textSizeLevel: a Number or NaN
    currentTheme,         \* AccessibilityFeatures.currentTheme
    storedTextSize,       \* localStorage item accessichef_text_size
    storedTheme,          \* localStorage item accessichef_theme
    bodyClasses,          \* DOM: document.body.classList
    themeHref,            \* DOM: href of the theme stylesheet link
    announced,            \* the message of the latest announceToScreenReader call
    initialised,          \* AccessibilityFeatures.init() has run
    prefOp,               \* history: the handler that ran last
    prefChanged           \* history: a control has changed the theme or the text size

prefVars == <<textSizeLevel, currentTheme, storedTextSize, storedTheme, bodyClasses,
              themeHref, announced, initialised, prefOp, prefChanged>>

\* RecipeManager: the cache field, the loadAllRecipes calls made and the
\* requests for data/recipes.json.
VARIABLES
    recipeCache,          \* RecipeManager.recipeCache: null or the array a fetch delivered
    loads,                \* the loadAllRecipes calls made, in order, with their promises
    fetchCount,           \* network: requests issued for data/recipes.json
    fetchFailed,          \* history: a fetch has failed
    firstResolved,        \* history: the array of the first promise fulfilled, if any
    loadedAfter           \* history: firstResolved as it was when each call was made

recipeVars == <<recipeCache, loads, fetchCount, fetchFailed, firstResolved, loadedAfter>>

\* The live regions of AccessibilityFeatures and the timeouts of its
\* announcements.
VARIABLES
    liveText,             \* DOM: textContent of each live region
    liveTimers,           \* browser: the pending setTimeout callbacks, in order of registration
    now,                  \* browser: the time in ms since the page loaded
    announcements,        \* history: the calls made, when each was shown and how it left
    holder                \* history: the call whose message each region holds

liveVars == <<liveText, liveTimers, now, announcements, holder>>

\* The recipe detail page: the step-by-step view of initStepByStepMode and
\* the inline timers of the instructions list.
VARIABLES
    instructions,         \* recipe.instructions: the time of each in minutes, 0 when it has none
    currentStep,          \* the closure variable currentStep
    allStepsHidden,       \* DOM: all-steps-view carries d-none
    stepViewHidden,       \* DOM: step-by-step-view carries d-none
    modeText,             \* DOM: the label of step-by-step-toggle
    stepNumber,           \* DOM: textContent of current-step-number
    prevDisabled,         \* DOM: prev-step.disabled
    nextDisabled,         \* DOM: next-step.disabled
    nextText,             \* DOM: textContent of next-step
    toggleDisabled,       \* DOM: timer-toggle.disabled
    toggleTime,           \* DOM: timer-toggle.dataset.time, 0 while unset
    toggleText,           \* DOM: the label of timer-toggle
    inlineDisplay,        \* DOM: inline-timer-display has been created
    notifications,        \* DOM: 'Timer Complete!' alerts shown, each with its removal pending
    stepAnnounced,        \* the message of the latest AccessiChef.announceToScreenReader call
    callbacks,            \* callbacks[g]: the handler whose closure the g-th startTimer got
    stepOp                \* history: the handler that ran last

stepVars == <<instructions, currentStep, allStepsHidden, stepViewHidden, modeText,
              stepNumber, prevDisabled, nextDisabled, nextText, toggleDisabled,
              toggleTime, toggleText, inlineDisplay, notifications, stepAnnounced,
              callbacks, stepOp>>

\* The recipe detail page: the ingredients list of displayRecipeDetails and
\* the two unit buttons of initMeasurementConversion.
VARIABLES
    ingredients,          \* recipe.ingredients: the amount and unit of each
    items,                \* DOM: the li of each ingredient: its dataset and the two texts shown
    unitsReady,           \* initMeasurementConversion has attached the two listeners
    metricActive,         \* DOM: metric-btn carries the class active
    imperialActive,       \* DOM: imperial-btn carries the class active
    metricPressed,        \* DOM: aria-pressed of metric-btn
    imperialPressed,      \* DOM: aria-pressed of imperial-btn
    unitAnnounced,        \* the message of the latest AccessiChef.announceToScreenReader call
    unitOp,               \* history: the button clicked last
    unitClicks            \* history: clicks so far

unitVars == <<ingredients, items, unitsReady, metricActive, imperialActive, metricPressed,
              imperialPressed, unitAnnounced, unitOp, unitClicks>>

\* The page state beside the timer, the converter and the preferences.
uiVars == <<recipeVars, liveVars, stepVars, unitVars>>

\* What the timer's handlers never touch.
otherVars == <<convVars, prefVars, uiVars>>

allVars == <<vars, otherVars>>

\* What the RecipeManager's calls and callbacks never touch.
allVarsButRecipes == <<vars, convVars, prefVars, liveVars, stepVars, unitVars>>

\* What the announcements never touch.
allVarsButLive == <<vars, convVars, prefVars, recipeVars, stepVars, unitVars>>

\* What the recipe detail page never touches beside the timer.
allVarsButSteps == <<convVars, prefVars, recipeVars, liveVars, unitVars>>

\* What the unit buttons never touch.
allVarsButUnits == <<vars, convVars, prefVars, recipeVars, liveVars, stepVars>>


\* ------------------------------------------------------- pure helpers

\* JavaScript's % : the result takes the sign of the dividend.
JsRem(a, b) == IF a >= 0 THEN a % b ELSE 0 - ((0 - a) % b)

\* String.prototype.padStart(2, '0') on the decimal numeral of n.
PadStart2(n) == IF Len(ToString(n)) < 2 THEN "0" \o ToString(n) ELSE ToString(n)

\* The MM:SS text updateTimerDisplay writes (Math.floor is \div).
FormatTime(secs) == PadStart2(secs \div 60) \o ":" \o PadStart2(JsRem(secs, 60))

\* ------------------------------------------------------- browser

\* clearInterval(id): clearing null or a dead id does nothing.
clearInterval(s, id) == [s EXCEPT !.intervals = @ \ {id}]

\* setInterval(handler, 1000), its id stored in timerInterval.
setInterval(s) ==
    [s EXCEPT !.intervals = @ \cup {s.nextTimerId},
              !.timerInterval = s.nextTimerId,
              !.nextTimerId = @ + 1]

\* ------------------------------------------------------- RecipeTimer

\* isRunning answering from the time left instead of the schedule.
isRunningByTimeLeft(s) == s.secondsRemaining > 0

isRunning(s) == s.timerInterval # NoInterval

updateTimerDisplay(s) ==
    IF s.currentTimerDisplay # NoDisplay
    THEN LET d == s.currentTimerDisplay IN
         [s EXCEPT !.textContent[d] = FormatTime(s.secondsRemaining),
                   !.classList[d] =
                       IF s.secondsRemaining <= LowTimeThreshold
                       THEN @ \cup {"text-danger", "fw-bold"}
                       ELSE @ \ {"text-danger", "fw-bold"}]
    ELSE s

playTimerCompleteSound(s) == [s EXCEPT !.played = @ + 1]

\* completeTimer without the setTimeout that reverts the display.
completeTimerNoRevert(s) ==
    LET s1 == [clearInterval(s, s.timerInterval) EXCEPT !.timerInterval = NoInterval]
        s2 == playTimerCompleteSound(s1)
        s3 == IF s2.currentTimerDisplay # NoDisplay
              THEN LET d == s2.currentTimerDisplay IN
                   [s2 EXCEPT !.textContent[d] = "DONE!",
                              !.classList[d] = @ \cup {"bg-success", "text-white", "fw-bold"}]
              ELSE s2
    IN  IF s3.completionCallback # NoCallback
        THEN [s3 EXCEPT !.invoked[s3.completionCallback] = @ + 1]
        ELSE s3

completeTimer(s) ==
    LET s1 == [clearInterval(s, s.timerInterval) EXCEPT !.timerInterval = NoInterval]
        s2 == playTimerCompleteSound(s1)
        s3 == IF s2.currentTimerDisplay # NoDisplay
              THEN LET d == s2.currentTimerDisplay IN
                   [s2 EXCEPT !.textContent[d] = "DONE!",
                              !.classList[d] = @ \cup {"bg-success", "text-white", "fw-bold"},
                              !.timeouts = @ + 1]
              ELSE s2
    IN  IF s3.completionCallback # NoCallback
        THEN [s3 EXCEPT !.invoked[s3.completionCallback] = @ + 1]
        ELSE s3

\* The interval handler (the same text in startTimer and in resumeTimer).
tick(s) ==
    LET s1 == [s EXCEPT !.secondsRemaining = @ - 1]
        s2 == updateTimerDisplay(s1)
    IN  IF s2.secondsRemaining <= 0 THEN completeTimer(s2) ELSE s2

stopTimer(s) ==
    IF s.timerInterval # NoInterval
    THEN LET s1 == [clearInterval(s, s.timerInterval)
                        EXCEPT !.timerInterval = NoInterval,
                               !.secondsRemaining = 0]
         IN  IF s1.currentTimerDisplay # NoDisplay
             THEN updateTimerDisplay(s1)
             ELSE s1
    ELSE s

\* startTimer without its leading stopTimer() call.
startTimerNoStop(s, seconds, displayElement, callback) ==
    LET s2 == [s EXCEPT !.secondsRemaining = seconds,
                        !.currentTimerDisplay = displayElement,
                        !.completionCallback = callback]
        s3 == updateTimerDisplay(s2)
    IN  setInterval(s3)

\* startTimer keeping the earlier callback when none is supplied
\* (callback || this.completionCallback).
startTimerKeepsCallback(s, seconds, displayElement, callback) ==
    LET s1 == stopTimer(s)
        s2 == [s1 EXCEPT !.secondsRemaining = seconds,
                         !.currentTimerDisplay = displayElement,
                         !.completionCallback =
                             IF callback # NoCallback THEN callback ELSE @]
        s3 == updateTimerDisplay(s2)
    IN  setInterval(s3)

startTimer(s, seconds, displayElement, callback) ==
    LET s1 == stopTimer(s)
        s2 == [s1 EXCEPT !.secondsRemaining = seconds,
                         !.currentTimerDisplay = displayElement,
                         !.completionCallback = callback]
        s3 == updateTimerDisplay(s2)
    IN  setInterval(s3)

\* pauseTimer written as stopTimer is: it also zeroes secondsRemaining.
pauseTimerZeroes(s) ==
    IF s.timerInterval # NoInterval
    THEN [clearInterval(s, s.timerInterval) EXCEPT !.timerInterval = NoInterval,
                                                   !.secondsRemaining = 0]
    ELSE s

pauseTimer(s) ==
    IF s.timerInterval # NoInterval
    THEN [clearInterval(s, s.timerInterval) EXCEPT !.timerInterval = NoInterval]
    ELSE s

\* resumeTimer without the secondsRemaining > 0 test.
resumeTimerNoTimeLeftTest(s) ==
    IF s.timerInterval = NoInterval
    THEN setInterval(s)
    ELSE s

\* resumeTimer without the !this.timerInterval test.
resumeTimerNoRunningTest(s) ==
    IF s.secondsRemaining > 0
    THEN setInterval(s)
    ELSE s

resumeTimer(s) ==
    IF s.timerInterval = NoInterval /\ s.secondsRemaining > 0
    THEN setInterval(s)
    ELSE s

\* The grace-period timeout of completeTimer: it reads this.currentTimerDisplay
\* when it fires (on null the property access throws before any write).
graceRevert(s) ==
    LET s1 == [s EXCEPT !.timeouts = @ - 1] IN
    IF s1.currentTimerDisplay # NoDisplay
    THEN LET d == s1.currentTimerDisplay IN
         [s1 EXCEPT !.classList[d] = @ \ {"bg-success", "text-white", "fw-bold"},
                    !.textContent[d] = "00:00"]
    ELSE s1

\* ------------------------------------------------------- JavaScript numbers

\* A Number is held as an exact decimal: sign, magnitude and the count of
\* fraction limbs.  The magnitude is a sequence of limbs to the base LimbBase,
\* lowest first, so that products of the factor table's six-decimal literals
\* stay exact beyond 32-bit integers.
LimbBase == 10000

RECURSIVE StripHigh(_)
StripHigh(a) ==
    IF a # <<>> /\ a[Len(a)] = 0 THEN StripHigh(SubSeq(a, 1, Len(a) - 1)) ELSE a

RECURSIVE StripLow(_)
StripLow(x) ==
    IF x.scale > 0 /\ x.mag # <<>> /\ x.mag[1] = 0
    THEN StripLow([x EXCEPT !.mag = Tail(@), !.scale = @ - 1])
    ELSE x

\* The one representation of each value: no zero limb at either end, zero unsigned.
Canon(x) ==
    LET y == StripLow([x EXCEPT !.mag = StripHigh(@)]) IN
    IF y.mag = <<>> THEN [neg |-> FALSE, mag |-> <<>>, scale |-> 0] ELSE y

Zeros(k) == [i \in 1 .. k |-> 0]

RECURSIVE NatAddC(_, _, _)
NatAddC(a, b, carry) ==
    IF a = <<>> /\ b = <<>>
    THEN IF carry = 0 THEN <<>> ELSE <<carry>>
    ELSE LET x == IF a = <<>> THEN 0 ELSE a[1]
             y == IF b = <<>> THEN 0 ELSE b[1]
             t == x + y + carry
         IN  <<t % LimbBase>> \o NatAddC(IF a = <<>> THEN a ELSE Tail(a),
                                         IF b = <<>> THEN b ELSE Tail(b),
                                         t \div LimbBase)

NatAdd(a, b) == StripHigh(NatAddC(a, b, 0))

\* a - b for a >= b.
RECURSIVE NatSubB(_, _, _)
NatSubB(a, b, borrow) ==
    IF a = <<>> THEN <<>>
    ELSE LET y == IF b = <<>> THEN 0 ELSE b[1]
             t == a[1] - y - borrow
         IN  <<IF t < 0 THEN t + LimbBase ELSE t>>
               \o NatSubB(Tail(a), IF b = <<>> THEN b ELSE Tail(b), IF t < 0 THEN 1 ELSE 0)

NatSub(a, b) == StripHigh(NatSubB(a, b, 0))

\* -1, 0, 1 as a is below, equal to, above b (both without high zero limbs).
RECURSIVE NatCmpFrom(_, _, _)
NatCmpFrom(a, b, i) ==
    IF i = 0 THEN 0
    ELSE IF a[i] < b[i] THEN -1
    ELSE IF a[i] > b[i] THEN 1
    ELSE NatCmpFrom(a, b, i - 1)

NatCmp(a, b) ==
    IF Len(a) < Len(b) THEN -1
    ELSE IF Len(a) > Len(b) THEN 1
    ELSE NatCmpFrom(a, b, Len(a))

RECURSIVE NatMulLimb(_, _, _)
NatMulLimb(a, d, carry) ==
    IF a = <<>>
    THEN IF carry = 0 THEN <<>> ELSE <<carry>>
    ELSE LET t == a[1] * d + carry
         IN  <<t % LimbBase>> \o NatMulLimb(Tail(a), d, t \div LimbBase)

RECURSIVE NatMul(_, _)
NatMul(a, b) ==
    IF b = <<>> THEN <<>>
    ELSE NatAdd(NatMulLimb(a, b[1], 0), <<0>> \o NatMul(a, Tail(b)))

\* The magnitude of x with k fraction limbs (k >= x.scale).
Aligned(x, k) == StripHigh(Zeros(k - x.scale) \o x.mag)

MaxOf(m, n) == IF m >= n THEN m ELSE n

\* -1, 0, 1 as x is below, equal to, above y.
Cmp(x, y) ==
    LET k == MaxOf(x.scale, y.scale)
        c == NatCmp(Aligned(x, k), Aligned(y, k))
    IN  IF x.neg /\ ~y.neg THEN IF x.mag = <<>> /\ y.mag = <<>> THEN 0 ELSE -1
        ELSE IF ~x.neg /\ y.neg THEN IF x.mag = <<>> /\ y.mag = <<>> THEN 0 ELSE 1
        ELSE IF x.neg THEN 0 - c ELSE c

Neg(x) == Canon([x EXCEPT !.neg = ~@])

Add(x, y) ==
    LET k == MaxOf(x.scale, y.scale)
        a == Aligned(x, k)
        b == Aligned(y, k)
    IN  IF x.neg = y.neg
        THEN Canon([neg |-> x.neg, mag |-> NatAdd(a, b), scale |-> k])
        ELSE IF NatCmp(a, b) >= 0
        THEN Canon([neg |-> x.neg, mag |-> NatSub(a, b), scale |-> k])
        ELSE Canon([neg |-> y.neg, mag |-> NatSub(b, a), scale |-> k])

Sub(x, y) == Add(x, [y EXCEPT !.neg = ~@])

Mul(x, y) ==
    Canon([neg |-> x.neg # y.neg, mag |-> NatMul(x.mag, y.mag), scale |-> x.scale + y.scale])

Abs(x) == [x EXCEPT !.neg = FALSE]

\* The number whole + tenThousandths / 10000 (whole < LimbBase * LimbBase).
Dec(whole, tenThousandths) ==
    Canon([neg |-> FALSE,
           mag |-> <<tenThousandths, whole % LimbBase, whole \div LimbBase>>,
           scale |-> 1])

\* The number millionths / 1000000, for the six-decimal literals.
Millionths(whole, millionths) ==
    Canon([neg |-> FALSE,
           mag |-> <<(millionths % 100) * 100, millionths \div 100,
                     whole % LimbBase, whole \div LimbBase>>,
           scale |-> 2])

Num(n) == IF n >= 0 THEN Dec(n, 0) ELSE Neg(Dec(0 - n, 0))

\* Math.floor.
IntLimbs(x) == IF Len(x.mag) > x.scale THEN SubSeq(x.mag, x.scale + 1, Len(x.mag)) ELSE <<>>

FracPart(x) == Canon([neg |-> FALSE,
                      mag |-> SubSeq(x.mag, 1, IF Len(x.mag) > x.scale THEN x.scale ELSE Len(x.mag)),
                      scale |-> x.scale])

MathFloor(x) ==
    LET i == [neg |-> FALSE, mag |-> IntLimbs(x), scale |-> 0] IN
    IF ~x.neg THEN Canon(i)
    ELSE IF x.scale = 0 THEN x
    ELSE Neg(Add(i, Num(1)))

Half == Dec(0, 5000)

\* Math.round: the integer nearest to x, a tie going up.
MathRound(x) == MathFloor(Add(x, Half))

\* ------------------------------------------------------- MeasurementConverter

\* conversionFactors: unit -> the two scale literals of the table.
conversionFactors ==
    [ml    |-> [toMetric |-> Num(1),                  toImperial |-> Millionths(0, 33814)],
     l     |-> [toMetric |-> Num(1000),               toImperial |-> Millionths(33, 814000)],
     floz  |-> [toMetric |-> Millionths(29, 573500),  toImperial |-> Num(1)],
     cup   |-> [toMetric |-> Millionths(236, 588000), toImperial |-> Num(8)],
     pint  |-> [toMetric |-> Millionths(473, 176000), toImperial |-> Num(16)],
     quart |-> [toMetric |-> Millionths(946, 353000), toImperial |-> Num(32)],
     tbsp  |-> [toMetric |-> Millionths(14, 786800),  toImperial |-> Dec(0, 5000)],
     tsp   |-> [toMetric |-> Millionths(4, 928920),   toImperial |-> Millionths(0, 166667)],
     g     |-> [toMetric |-> Num(1),                  toImperial |-> Millionths(0, 35274)],
     kg    |-> [toMetric |-> Num(1000),               toImperial |-> Millionths(35, 274000)],
     oz    |-> [toMetric |-> Millionths(28, 349500),  toImperial |-> Num(1)],
     lb    |-> [toMetric |-> Millionths(453, 592000), toImperial |-> Num(16)]]

unitMappings ==
    [ml |-> "floz", l |-> "quart", g |-> "oz", kg |-> "lb", tbsp |-> "tbsp", tsp |-> "tsp",
     floz |-> "ml", cup |-> "ml", pint |-> "ml", quart |-> "l", oz |-> "g", lb |-> "kg"]

\* The all-lower-case property names every object literal inherits from
\* Object.prototype: obj[name] is a truthy object for them.
InheritedKeys == {"constructor", "__proto__"}

\* String.prototype.toLowerCase on the unit strings the model feeds in.
toLowerCase(unit) ==
    CASE unit = "ML" -> "ml"
      [] unit = "Cup" -> "cup"
      [] unit = "Pinch" -> "pinch"
      [] OTHER -> unit

isVolumeUnit(unit) == unit \in {"ml", "l", "floz", "cup", "pint", "quart", "tbsp", "tsp"}

roundMeasurement(value) ==
    IF Cmp(value, Num(10)) >= 0 THEN MathRound(value)
    ELSE IF Cmp(value, Num(1)) >= 0 THEN Mul(MathRound(Mul(value, Num(4))), Dec(0, 2500))
    ELSE Mul(MathRound(Mul(value, Num(8))), Dec(0, 1250))

Returned(amount, unit) == [threw |-> FALSE, amount |-> amount, unit |-> unit]

\* A TypeError leaves the call without a value; the fields echo the arguments.
Threw(amount, unit) == [threw |-> TRUE, amount |-> amount, unit |-> unit]

\* convertToImperial with the rounding applied on the pass-through paths too.
convertToImperialRoundsAll(amount, unit) ==
    IF toLowerCase(unit) \notin DOMAIN conversionFactors
    THEN Returned(roundMeasurement(amount), unit)
    ELSE LET targetUnit == unitMappings[toLowerCase(unit)]
             mlAmount == Mul(amount, conversionFactors[toLowerCase(unit)].toMetric)
         IN  Returned(roundMeasurement(Mul(mlAmount, conversionFactors[targetUnit].toImperial)),
                      targetUnit)

convertToImperial(amount, unit) ==
    IF unit \in {"pinch", "dash", "to taste", ""} THEN Returned(amount, unit)
    ELSE LET normalizedUnit == toLowerCase(unit) IN
         IF normalizedUnit \notin (DOMAIN conversionFactors) \cup InheritedKeys
         THEN Returned(amount, unit)
         ELSE IF normalizedUnit \in InheritedKeys
         THEN Threw(amount, unit)
         ELSE LET targetUnit == unitMappings[normalizedUnit]
                  convertedAmount ==
                      IF isVolumeUnit(normalizedUnit)
                      THEN LET mlAmount == Mul(amount, conversionFactors[normalizedUnit].toMetric)
                           IN  Mul(mlAmount, conversionFactors[targetUnit].toImperial)
                      ELSE LET gAmount == Mul(amount, conversionFactors[normalizedUnit].toMetric)
                           IN  Mul(gAmount, conversionFactors[targetUnit].toImperial)
              IN  Returned(roundMeasurement(convertedAmount), targetUnit)

convertToMetric(amount, unit) ==
    IF unit \in {"pinch", "dash", "to taste", ""} THEN Returned(amount, unit)
    ELSE LET normalizedUnit == toLowerCase(unit) IN
         IF normalizedUnit \notin (DOMAIN conversionFactors) \cup InheritedKeys
         THEN Returned(amount, unit)
         ELSE IF normalizedUnit \in InheritedKeys
         THEN Threw(amount, unit)
         ELSE LET targetUnit == unitMappings[normalizedUnit]
                  convertedAmount ==
                      IF isVolumeUnit(normalizedUnit)
                      THEN LET flozAmount == Mul(amount, conversionFactors[normalizedUnit].toImperial)
                           IN  Mul(flozAmount, conversionFactors[targetUnit].toMetric)
                      ELSE LET ozAmount == Mul(amount, conversionFactors[normalizedUnit].toImperial)
                           IN  Mul(ozAmount, conversionFactors[targetUnit].toMetric)
              IN  Returned(roundMeasurement(convertedAmount), targetUnit)

\* The sign of the binary representation error that amount - whole carries:
\* the doubles compare and round as the exact fraction moved by less than any
\* grid step in this direction.
FloatErr == {-1, 1}

\* Math.abs(fraction - c) < 0.01 on doubles.
Tolerance == Dec(0, 100)

Within(fraction, c, err) ==
    LET d == Cmp(Abs(Sub(fraction, c)), Tolerance) IN
    \/ d < 0
    \/ d = 0 /\ ((Cmp(fraction, c) > 0 /\ err = -1) \/ (Cmp(fraction, c) < 0 /\ err = 1))

Pad4(n) ==
    IF n < 10 THEN "000" \o ToString(n)
    ELSE IF n < 100 THEN "00" \o ToString(n)
    ELSE IF n < 1000 THEN "0" \o ToString(n)
    ELSE ToString(n)

RECURSIVE DigitsOf(_)
DigitsOf(a) ==
    IF Len(a) = 1 THEN ToString(a[1])
    ELSE DigitsOf(SubSeq(a, 2, Len(a))) \o Pad4(a[1])

\* The template-literal text of an integer Number.
NumToString(x) ==
    IF x.mag = <<>> THEN "0"
    ELSE (IF x.neg THEN "-" ELSE "") \o DigitsOf(x.mag)

\* Number.prototype.toFixed(2) of a fraction in [0, 1).
ToFixed2(fraction, err) ==
    LET h == Mul(fraction, Num(100))
        r == Cmp(FracPart(h), Half)
        up == r > 0 \/ (r = 0 /\ err = 1)
        n == (IF IntLimbs(h) = <<>> THEN 0 ELSE IntLimbs(h)[1]) + (IF up THEN 1 ELSE 0)
    IN  IF n >= 100 THEN "1.00" ELSE "0." \o PadStart2(n)

\* The else-if chain that picks the fraction's rendering.  The vulgar-fraction
\* glyphs are written num/den: "1/2" is the one character U+00BD, and so on.
fractionStringOneThird(fraction, err) ==
    IF Within(fraction, Dec(0, 2500), err) THEN "1/4"
    ELSE IF Within(fraction, Dec(0, 5000), err) THEN "1/2"
    ELSE IF Within(fraction, Dec(0, 7500), err) THEN "3/4"
    ELSE IF Within(fraction, Dec(0, 3300), err) THEN "1/3"
    ELSE IF Within(fraction, Dec(0, 6700), err)
            \/ Within(fraction, Dec(0, 6660), err) THEN "2/3"
    ELSE IF Within(fraction, Dec(0, 1250), err) THEN "1/8"
    ELSE IF Within(fraction, Dec(0, 3750), err) THEN "3/8"
    ELSE IF Within(fraction, Dec(0, 6250), err) THEN "5/8"
    ELSE IF Within(fraction, Dec(0, 8750), err) THEN "7/8"
    ELSE ToFixed2(fraction, err)

fractionString(fraction, err) ==
    IF Within(fraction, Dec(0, 2500), err) THEN "1/4"
    ELSE IF Within(fraction, Dec(0, 5000), err) THEN "1/2"
    ELSE IF Within(fraction, Dec(0, 7500), err) THEN "3/4"
    ELSE IF Within(fraction, Dec(0, 3300), err)
            \/ Within(fraction, Dec(0, 3330), err) THEN "1/3"
    ELSE IF Within(fraction, Dec(0, 6700), err)
            \/ Within(fraction, Dec(0, 6660), err) THEN "2/3"
    ELSE IF Within(fraction, Dec(0, 1250), err) THEN "1/8"
    ELSE IF Within(fraction, Dec(0, 3750), err) THEN "3/8"
    ELSE IF Within(fraction, Dec(0, 6250), err) THEN "5/8"
    ELSE IF Within(fraction, Dec(0, 8750), err) THEN "7/8"
    ELSE ToFixed2(fraction, err)

\* formatMeasurement testing whole >= 0: a zero integer part is kept.
formatMeasurementKeepsZero(amount, unit, err) ==
    LET formattedAmount ==
            IF amount.scale > 0
            THEN LET whole == MathFloor(amount)
                     fraction == Sub(amount, whole)
                 IN  IF Cmp(whole, Num(0)) >= 0
                     THEN NumToString(whole) \o " " \o fractionString(fraction, err)
                     ELSE fractionString(fraction, err)
            ELSE NumToString(amount)
    IN  formattedAmount \o " " \o unit

\* amount % 1 !== 0 is a fraction limb in the exact decimal.
formatMeasurement(amount, unit, err) ==
    LET formattedAmount ==
            IF amount.scale > 0
            THEN LET whole == MathFloor(amount)
                     fraction == Sub(amount, whole)
                 IN  IF Cmp(whole, Num(0)) > 0
                     THEN NumToString(whole) \o " " \o fractionString(fraction, err)
                     ELSE fractionString(fraction, err)
            ELSE NumToString(amount)
    IN  formattedAmount \o " " \o unit

\* ------------------------------------------------------- AccessibilityFeatures

\* textSizeLevel is a Number or NaN; every comparison with NaN is false.
NaN == [nan |-> TRUE, n |-> 0]

Number(n) == [nan |-> FALSE, n |-> n]

Less(x, y) == ~x.nan /\ ~y.nan /\ x.n < y.n

\* A localStorage item: absent, or a string held as the sequence of its pieces
\* (single characters where the program parses the string).
NoItem == [present |-> FALSE, chars |-> <<>>]

Item(chars) == [present |-> TRUE, chars |-> chars]

\* if (saved): getItem returned a non-empty string.
Truthy(item) == item.present /\ item.chars # <<>>

DigitChars == <<"0", "1", "2", "3", "4", "5", "6", "7", "8", "9">>

IsDigit(c) == \E d \in 1 .. 10 : DigitChars[d] = c

DigitValue(c) == (CHOOSE d \in 1 .. 10 : DigitChars[d] = c) - 1

RECURSIVE TrimStart(_)
TrimStart(chars) ==
    IF chars # <<>> /\ chars[1] = " " THEN TrimStart(Tail(chars)) ELSE chars

\* The value of the leading digits of chars after acc; seen tells whether a
\* digit was read.
RECURSIVE LeadingDigits(_, _, _)
LeadingDigits(chars, acc, seen) ==
    IF chars # <<>> /\ IsDigit(chars[1])
    THEN LeadingDigits(Tail(chars), 10 * acc + DigitValue(chars[1]), TRUE)
    ELSE [seen |-> seen, value |-> acc]

\* parseInt(string, 10): white space, a sign, then the leading decimal digits;
\* NaN when there is none.
parseInt(chars) ==
    LET t == TrimStart(chars)
        signed == t # <<>> /\ t[1] \in {"+", "-"}
        digits == LeadingDigits(IF signed THEN Tail(t) ELSE t, 0, FALSE)
    IN  IF ~digits.seen THEN NaN
        ELSE IF signed /\ t[1] = "-" THEN Number(0 - digits.value)
        ELSE Number(digits.value)

RECURSIVE NatChars(_)
NatChars(n) ==
    IF n < 10 THEN <<DigitChars[n + 1]>>
    ELSE Append(NatChars(n \div 10), DigitChars[(n % 10) + 1])

\* Number.prototype.toString of an integer or NaN, as characters.
NumberChars(x) ==
    IF x.nan THEN <<"N", "a", "N">>
    ELSE IF x.n < 0 THEN <<"-">> \o NatChars(0 - x.n)
    ELSE NatChars(x.n)

\* The same inside a template literal.
NumberText(x) == IF x.nan THEN "NaN" ELSE ToString(x.n)

\* The preference state as one value.
Prefs ==
    [textSizeLevel  |-> textSizeLevel,
     currentTheme   |-> currentTheme,
     storedTextSize |-> storedTextSize,
     storedTheme    |-> storedTheme,
     bodyClasses    |-> bodyClasses,
     themeHref      |-> themeHref,
     announced      |-> announced]

PrefsBecome(s) ==
    /\ textSizeLevel' = s.textSizeLevel
    /\ currentTheme' = s.currentTheme
    /\ storedTextSize' = s.storedTextSize
    /\ storedTheme' = s.storedTheme
    /\ bodyClasses' = s.bodyClasses
    /\ themeHref' = s.themeHref
    /\ announced' = s.announced

loadPreferences(s) ==
    LET s1 == IF Truthy(s.storedTheme)
              THEN [s EXCEPT !.currentTheme = s.storedTheme.chars]
              ELSE s
    IN  IF Truthy(s1.storedTextSize)
        THEN [s1 EXCEPT !.textSizeLevel = parseInt(s1.storedTextSize.chars)]
        ELSE s1

\* savePreferences writing the theme item only.
savePreferencesThemeOnly(s) == [s EXCEPT !.storedTheme = Item(s.currentTheme)]

savePreferences(s) ==
    [s EXCEPT !.storedTheme = Item(s.currentTheme),
              !.storedTextSize = Item(NumberChars(s.textSizeLevel))]

applyTheme(s, theme) == [s EXCEPT !.themeHref = <<"css/themes/", theme, ".css">>]

TextSizeClass(level) == "text-size-" \o NumberText(level)

applyTextSize(s, level) ==
    [s EXCEPT !.bodyClasses =
        (@ \ {TextSizeClass(Number(n)) : n \in 1 .. 5}) \cup {TextSizeClass(level)}]

applyPreferences(s) == applyTextSize(applyTheme(s, s.currentTheme), s.textSizeLevel)

announceToScreenReader(s, message) == [s EXCEPT !.announced = message]

setTheme(s, theme) ==
    LET s1 == savePreferences(applyTheme([s EXCEPT !.currentTheme = theme], theme))
    IN  announceToScreenReader(s1, <<theme, " theme applied">>)

increaseTextSize(s) ==
    IF Less(s.textSizeLevel, Number(maxTextSize))
    THEN LET s1 == [s EXCEPT !.textSizeLevel = Number(@.n + 1)]
             s2 == savePreferences(applyTextSize(s1, s1.textSizeLevel))
         IN  announceToScreenReader(s2, <<"Text size increased to level ",
                                          NumberText(s2.textSizeLevel), " of ",
                                          ToString(maxTextSize)>>)
    ELSE announceToScreenReader(s, <<"Maximum text size reached">>)

decreaseTextSize(s) ==
    IF Less(Number(minTextSize), s.textSizeLevel)
    THEN LET s1 == [s EXCEPT !.textSizeLevel = Number(@.n - 1)]
             s2 == savePreferences(applyTextSize(s1, s1.textSizeLevel))
         IN  announceToScreenReader(s2, <<"Text size decreased to level ",
                                          NumberText(s2.textSizeLevel), " of ",
                                          ToString(maxTextSize)>>)
    ELSE announceToScreenReader(s, <<"Minimum text size reached">>)

\* init(): the two calls that touch the preferences.
init(s) == applyPreferences(loadPreferences(s))

\* A page load runs the script again: the object literal and the page's markup
\* are new, localStorage is what the browser keeps.
freshPage(s) ==
    [s EXCEPT !.textSizeLevel = Number(DefaultTextSize),
              !.currentTheme = <<"default">>,
              !.bodyClasses = {},
              !.themeHref = <<>>,
              !.announced = <<>>]

\* ------------------------------------------------------- RecipeManager

\* The RecipeManager state and its promises as one value.
Recipes == [recipeCache |-> recipeCache, loads |-> loads, fetchCount |-> fetchCount]

RecipesBecome(s) ==
    /\ recipeCache' = s.recipeCache
    /\ loads' = s.loads
    /\ fetchCount' = s.fetchCount

\* The promise a call returned: whether the call issued a fetch, how far its
\* request is ("sent", "json" while response.json() reads the body, "done",
\* "failed", or "none"), and the promise's state and value.
Cached(caller, array) ==
    [caller |-> caller, fetched |-> FALSE, request |-> "none",
     promise |-> "fulfilled", value |-> array]

Fetching(caller) ==
    [caller |-> caller, fetched |-> TRUE, request |-> "sent",
     promise |-> "pending", value |-> NoCache]

loadAllRecipes(s, caller) ==
    IF s.recipeCache # NoCache
    THEN [s EXCEPT !.loads = Append(@, Cached(caller, s.recipeCache))]
    ELSE [s EXCEPT !.loads = Append(@, Fetching(caller)),
                   !.fetchCount = @ + 1]

\* The first then-callback of call i: a response has arrived.
onResponse(s, i, ok) ==
    IF ~ok
    THEN [s EXCEPT !.loads[i].request = "failed", !.loads[i].promise = "rejected"]
    ELSE [s EXCEPT !.loads[i].request = "json"]

\* The second then-callback of call i: the body has been parsed into a new
\* object, whose recipes array is cached and returned.
onData(s, i) ==
    [s EXCEPT !.recipeCache = i,
              !.loads[i].request = "done",
              !.loads[i].promise = "fulfilled",
              !.loads[i].value = i]

\* fetch() or response.json() rejects: no callback of the chain runs.
onRejection(s, i) ==
    [s EXCEPT !.loads[i].request = "failed", !.loads[i].promise = "rejected"]

\* ------------------------------------------------------- the live regions

\* The regions and the pending timeouts as one value.
Live == [liveText |-> liveText, liveTimers |-> liveTimers]

LiveBecomes(s) ==
    /\ liveText' = s.liveText
    /\ liveTimers' = s.liveTimers

RemoveAt(seq, i) == SubSeq(seq, 1, i - 1) \o SubSeq(seq, i + 1, Len(seq))

RegionOf(assertive) == IF assertive THEN "assertive-announcer" ELSE "polite-announcer"

ClearDelay(assertive) == IF assertive THEN AssertiveClearDelay ELSE PoliteClearDelay

\* The body of announceToScreenReader at the given time: the region is looked
\* up and the outer timeout registered; id tells the calls apart.
announceToScreenReaderAt(s, message, assertive, id, time) ==
    [s EXCEPT !.liveTimers =
        Append(@, [kind |-> "show", id |-> id, message |-> message,
                   assertive |-> assertive, due |-> time + SetDelay])]

\* The outer timeout's callback: the i-th pending timeout fires.
showMessage(s, i, time) ==
    LET t == s.liveTimers[i] IN
    [s EXCEPT !.liveText[RegionOf(t.assertive)] = t.message,
              !.liveTimers =
                  Append(RemoveAt(@, i),
                         [t EXCEPT !.kind = "clear",
                                   !.due = time + ClearDelay(t.assertive)])]

\* The inner timeout's callback.
clearMessage(s, i) ==
    LET t == s.liveTimers[i] IN
    IF s.liveText[RegionOf(t.assertive)] = t.message
    THEN [s EXCEPT !.liveText[RegionOf(t.assertive)] = "",
                   !.liveTimers = RemoveAt(@, i)]
    ELSE [s EXCEPT !.liveTimers = RemoveAt(@, i)]

\* ------------------------------------------------------- the step-by-step view

\* The controls of the step-by-step view as one value.
Steps ==
    [currentStep    |-> currentStep,
     allStepsHidden |-> allStepsHidden,
     stepViewHidden |-> stepViewHidden,
     modeText       |-> modeText,
     stepNumber     |-> stepNumber,
     prevDisabled   |-> prevDisabled,
     nextDisabled   |-> nextDisabled,
     nextText       |-> nextText,
     toggleDisabled |-> toggleDisabled,
     toggleTime     |-> toggleTime,
     toggleText     |-> toggleText,
     stepAnnounced  |-> stepAnnounced]

StepsBecome(s) ==
    /\ currentStep' = s.currentStep
    /\ allStepsHidden' = s.allStepsHidden
    /\ stepViewHidden' = s.stepViewHidden
    /\ modeText' = s.modeText
    /\ stepNumber' = s.stepNumber
    /\ prevDisabled' = s.prevDisabled
    /\ nextDisabled' = s.nextDisabled
    /\ nextText' = s.nextText
    /\ toggleDisabled' = s.toggleDisabled
    /\ toggleTime' = s.toggleTime
    /\ toggleText' = s.toggleText
    /\ stepAnnounced' = s.stepAnnounced

\* AccessiChef.announceToScreenReader: the message handed to the page's own
\* live region.
announce(s, message) == [s EXCEPT !.stepAnnounced = message]

StartLabel(minutes) == "Start " \o ToString(minutes) \o "m Timer"

\* updateStepDisplay that never disables the next control.
updateStepDisplayNextEnabled(s, recipe) ==
    LET time == recipe[s.currentStep + 1]
        s1 == [s EXCEPT !.stepNumber = s.currentStep + 1,
                        !.prevDisabled = (s.currentStep = 0),
                        !.nextDisabled = FALSE,
                        !.nextText = IF s.currentStep = Len(recipe) - 1
                                     THEN "Finish" ELSE "Next"]
        s2 == IF time # 0
              THEN [s1 EXCEPT !.toggleDisabled = FALSE,
                              !.toggleTime = time,
                              !.toggleText = StartLabel(time)]
              ELSE [s1 EXCEPT !.toggleDisabled = TRUE,
                              !.toggleText = "No Timer"]
    IN  announce(s2, "Step " \o ToString(s.currentStep + 1) \o " of "
                         \o ToString(Len(recipe)))

\* recipe.instructions[currentStep] is element currentStep + 1 of the sequence.
updateStepDisplay(s, recipe) ==
    LET time == recipe[s.currentStep + 1]
        s1 == [s EXCEPT !.stepNumber = s.currentStep + 1,
                        !.prevDisabled = (s.currentStep = 0),
                        !.nextDisabled = (s.currentStep = Len(recipe) - 1),
                        !.nextText = IF s.currentStep = Len(recipe) - 1
                                     THEN "Finish" ELSE "Next"]
        s2 == IF time # 0
              THEN [s1 EXCEPT !.toggleDisabled = FALSE,
                              !.toggleTime = time,
                              !.toggleText = StartLabel(time)]
              ELSE [s1 EXCEPT !.toggleDisabled = TRUE,
                              !.toggleText = "No Timer"]
    IN  announce(s2, "Step " \o ToString(s.currentStep + 1) \o " of "
                         \o ToString(Len(recipe)))

\* The click handler of step-by-step-toggle, the page's part of it (the
\* branch to the list of all steps also stops the timer).
isStepByStep(s) == s.allStepsHidden

showAllSteps(s) ==
    [s EXCEPT !.allStepsHidden = FALSE,
              !.stepViewHidden = TRUE,
              !.modeText = "Step-by-Step Mode"]

onModeToggle(s, recipe) ==
    IF isStepByStep(s)
    THEN announce(showAllSteps(s), "Switched to all steps view")
    ELSE LET s1 == [s EXCEPT !.allStepsHidden = TRUE,
                             !.stepViewHidden = FALSE,
                             !.modeText = "All Steps Mode",
                             !.currentStep = 0]
         IN  announce(updateStepDisplay(s1, recipe), "Switched to step-by-step mode")

\* The click handler of prev-step.
onPrevStep(s, recipe) ==
    IF s.currentStep > 0
    THEN updateStepDisplay([s EXCEPT !.currentStep = @ - 1], recipe)
    ELSE s

\* The click handler of next-step.
onNextStep(s, recipe) ==
    IF s.currentStep < Len(recipe) - 1
    THEN updateStepDisplay([s EXCEPT !.currentStep = @ + 1], recipe)
    ELSE announce(showAllSteps(s), "Recipe steps completed. Returned to all steps view.")

\* The completion callback the timer-toggle handler hands to startTimer.
onToggleTimerComplete(s) ==
    [announce(s, "Timer complete!") EXCEPT !.toggleText = StartLabel(s.toggleTime)]

\* ------------------------------------------------------- the unit buttons

\* The decimal digits of the lowest limb of a fraction, without the trailing
\* zeros.
LowDigits(n) ==
    IF n % 1000 = 0 THEN ToString(n \div 1000)
    ELSE IF n % 100 = 0 THEN (IF n < 1000 THEN "0" ELSE "") \o ToString(n \div 100)
    ELSE IF n % 10 = 0
    THEN (IF n < 100 THEN "00" ELSE IF n < 1000 THEN "0" ELSE "") \o ToString(n \div 10)
    ELSE Pad4(n)

\* The digits of limbs i down to 1 of the fraction of x.
RECURSIVE FracDigits(_, _)
FracDigits(x, i) ==
    LET limb == IF i <= Len(x.mag) THEN x.mag[i] ELSE 0 IN
    IF i = 1 THEN LowDigits(limb) ELSE Pad4(limb) \o FracDigits(x, i - 1)

\* The string of a Number, as assigning it to a dataset property or a
\* template literal makes it: the shortest decimal numeral (magnitudes from
\* 0.000001 up, below which the string carries an exponent).
AmountText(x) ==
    LET y == Canon(x) IN
    (IF y.neg THEN "-" ELSE "")
        \o (IF IntLimbs(y) = <<>> THEN "0" ELSE DigitsOf(IntLimbs(y)))
        \o (IF y.scale = 0 THEN "" ELSE "." \o FracDigits(y, y.scale))

\* The li displayRecipeDetails builds for an ingredient: the four dataset
\* strings and the two spans, metric shown.  The first convertToImperial call
\* may raise.
renderIngredient(ingredient) ==
    LET imperial == convertToImperial(ingredient.amount, ingredient.unit) IN
    [threw          |-> imperial.threw,
     metricAmount   |-> AmountText(ingredient.amount),
     metricUnit     |-> ingredient.unit,
     imperialAmount |-> AmountText(imperial.amount),
     imperialUnit   |-> imperial.unit,
     amountText     |-> AmountText(ingredient.amount),
     unitText       |-> ingredient.unit]

\* The ingredients appended to the list: those before the first whose
\* conversion raises.
RECURSIVE renderIngredients(_)
renderIngredients(list) ==
    IF list = <<>> \/ renderIngredient(Head(list)).threw THEN <<>>
    ELSE <<renderIngredient(Head(list))>> \o renderIngredients(Tail(list))

\* The buttons and the list as one value.
Units ==
    [items           |-> items,
     metricActive    |-> metricActive,
     imperialActive  |-> imperialActive,
     metricPressed   |-> metricPressed,
     imperialPressed |-> imperialPressed,
     unitAnnounced   |-> unitAnnounced]

UnitsBecome(s) ==
    /\ items' = s.items
    /\ metricActive' = s.metricActive
    /\ imperialActive' = s.imperialActive
    /\ metricPressed' = s.metricPressed
    /\ imperialPressed' = s.imperialPressed
    /\ unitAnnounced' = s.unitAnnounced

\* The click handler of metric-btn.
onMetricClick(s) ==
    [s EXCEPT !.metricActive = TRUE,
              !.metricPressed = "true",
              !.imperialActive = FALSE,
              !.imperialPressed = "false",
              !.items = [i \in DOMAIN s.items |->
                            [s.items[i] EXCEPT !.amountText = s.items[i].metricAmount,
                                               !.unitText = s.items[i].metricUnit]],
              !.unitAnnounced = "Measurements converted to metric units"]

\* The imperial handler showing the metric amount beside the imperial unit.
onImperialClickMetricAmount(s) ==
    [s EXCEPT !.imperialActive = TRUE,
              !.imperialPressed = "true",
              !.metricActive = FALSE,
              !.metricPressed = "false",
              !.items = [i \in DOMAIN s.items |->
                            [s.items[i] EXCEPT !.amountText = s.items[i].metricAmount,
                                               !.unitText = s.items[i].imperialUnit]],
              !.unitAnnounced = "Measurements converted to imperial units"]

\* The click handler of imperial-btn.
onImperialClick(s) ==
    [s EXCEPT !.imperialActive = TRUE,
              !.imperialPressed = "true",
              !.metricActive = FALSE,
              !.metricPressed = "false",
              !.items = [i \in DOMAIN s.items |->
                            [s.items[i] EXCEPT !.amountText = s.items[i].imperialAmount,
                                               !.unitText = s.items[i].imperialUnit]],
              !.unitAnnounced = "Measurements converted to imperial units"]

\* ------------------------------------------------------- the state machine

\* The state of the spec's state machine that the fields encode: Running has a
\* schedule, Paused has none and time left, Idle has none and no time left.
TimerState(s) ==
    IF s.timerInterval # NoInterval THEN "Running"
    ELSE IF s.secondsRemaining > 0 THEN "Paused"
    ELSE "Idle"

\* No measurement is held: the converter is not in use.
ConverterIdle ==
    /\ cvAmount = Num(0)
    /\ cvUnit = ""
    /\ cvThrew = FALSE
    /\ cvText = ""
    /\ cvPath = <<>>
    /\ cvFromAmount = Num(0)
    /\ cvFromUnit = ""
    /\ cvOrigAmount = Num(0)
    /\ cvOrigUnit = ""

\* The preference fields as the object literal sets them, on a page that no
\* preference has been applied to.
PrefsFresh ==
    /\ textSizeLevel = Number(DefaultTextSize)
    /\ currentTheme = <<"default">>
    /\ bodyClasses = {}
    /\ themeHref = <<>>
    /\ announced = <<>>
    /\ initialised = FALSE
    /\ prefOp = "none"
    /\ prefChanged = FALSE

\* The same in a browser that stores nothing for the page.
PrefsIdle ==
    /\ PrefsFresh
    /\ storedTextSize = NoItem
    /\ storedTheme = NoItem

\* The RecipeManager object as the script leaves it: nothing cached, no call
\* made.
RecipesIdle ==
    /\ recipeCache = NoCache
    /\ loads = <<>>
    /\ fetchCount = 0
    /\ fetchFailed = FALSE
    /\ firstResolved = NoCache
    /\ loadedAfter = <<>>

\* The live regions as initAnnouncementRegions creates them: empty.
LiveIdle ==
    /\ liveText = [r \in Regions |-> ""]
    /\ liveTimers = <<>>
    /\ now = 0
    /\ announcements = <<>>
    /\ holder = [r \in Regions |-> 0]

\* The step-by-step controls as initStepByStepMode finds them in the page's
\* markup: the list of all steps shown, the step view hidden, no control
\* disabled.
StepsFresh ==
    /\ currentStep = 0
    /\ allStepsHidden = FALSE
    /\ stepViewHidden = TRUE
    /\ modeText = "Step-by-Step Mode"
    /\ stepNumber = 0
    /\ prevDisabled = FALSE
    /\ nextDisabled = FALSE
    /\ nextText = "Next"
    /\ toggleDisabled = FALSE
    /\ toggleTime = 0
    /\ toggleText = "Start Timer"
    /\ inlineDisplay = FALSE
    /\ notifications = 0
    /\ stepAnnounced = ""
    /\ callbacks = [g \in Countdowns |-> "none"]
    /\ stepOp = "none"

\* A page that shows no recipe.
StepsIdle ==
    /\ StepsFresh
    /\ instructions = <<>>

\* No ingredient is listed and the unit buttons have no listener.
UnitsIdle ==
    /\ ingredients = <<>>
    /\ items = <<>>
    /\ unitsReady = FALSE
    /\ metricActive = TRUE
    /\ imperialActive = FALSE
    /\ metricPressed = "true"
    /\ imperialPressed = "false"
    /\ unitAnnounced = ""
    /\ unitOp = "none"
    /\ unitClicks = 0

UiIdle == RecipesIdle /\ LiveIdle /\ StepsIdle /\ UnitsIdle

\* The RecipeTimer object as the script leaves it.
TimerInit ==
    /\ timerInterval = NoInterval
    /\ secondsRemaining = 0
    /\ currentTimerDisplay = NoDisplay
    /\ completionCallback = NoCallback
    /\ intervals = {}
    /\ nextTimerId = 1
    /\ timeouts = 0
    /\ textContent = [d \in Displays |-> ""]
    /\ classList = [d \in Displays |-> {}]
    /\ invoked = [g \in Countdowns |-> 0]
    /\ played = 0
    /\ gen = 0
    /\ startedWith = 0
    /\ startedFrom = "Idle"
    /\ ticks = 0
    /\ pausedSince = FALSE
    /\ stoppedSince = FALSE
    /\ lastOp = "init"
    /\ queryResult = FALSE

Init ==
    /\ TimerInit
    /\ ConverterIdle
    /\ PrefsIdle
    /\ UiIdle

StartTimer ==
    /\ gen < MaxStarts
    /\ nextTimerId <= MaxTimerIds
    /\ \E seconds \in SecondsInputs, displayElement \in Displays, hasCallback \in BOOLEAN :
          /\ Becomes(startTimer(Cur, seconds, displayElement,
                                IF hasCallback THEN gen + 1 ELSE NoCallback))
          /\ startedWith' = seconds
    /\ startedFrom' = TimerState(Cur)
    /\ gen' = gen + 1
    /\ ticks' = 0
    /\ pausedSince' = FALSE
    /\ stoppedSince' = FALSE
    /\ lastOp' = "start"
    /\ UNCHANGED queryResult
    /\ UNCHANGED otherVars

StopTimer ==
    /\ Becomes(stopTimer(Cur))
    /\ stoppedSince' = TRUE
    /\ lastOp' = "stop"
    /\ UNCHANGED <<gen, startedWith, startedFrom, ticks, pausedSince, queryResult>>
    /\ UNCHANGED otherVars

PauseTimer ==
    /\ Becomes(pauseTimer(Cur))
    /\ pausedSince' = TRUE
    /\ lastOp' = "pause"
    /\ UNCHANGED <<gen, startedWith, startedFrom, ticks, stoppedSince, queryResult>>
    /\ UNCHANGED otherVars

ResumeTimer ==
    /\ nextTimerId <= MaxTimerIds
    /\ Becomes(resumeTimer(Cur))
    /\ lastOp' = "resume"
    /\ UNCHANGED <<gen, startedWith, startedFrom, ticks, pausedSince, stoppedSince, queryResult>>
    /\ UNCHANGED otherVars

IsRunning ==
    /\ queryResult' = isRunning(Cur)
    /\ lastOp' = "isRunning"
    /\ UNCHANGED <<progVars, gen, startedWith, startedFrom, ticks, pausedSince, stoppedSince>>
    /\ UNCHANGED otherVars

\* A live interval schedule fires.
Tick ==
    /\ \E id \in intervals : Becomes(tick(Cur))
    /\ ticks' = ticks + 1
    /\ lastOp' = "tick"
    /\ UNCHANGED <<gen, startedWith, startedFrom, pausedSince, stoppedSince, queryResult>>
    /\ UNCHANGED otherVars

\* A pending grace-period timeout fires.
GraceRevert ==
    /\ timeouts > 0
    /\ Becomes(graceRevert(Cur))
    /\ lastOp' = "revert"
    /\ UNCHANGED <<gen, startedWith, startedFrom, ticks, pausedSince, stoppedSince, queryResult>>
    /\ UNCHANGED otherVars

Next ==
    \/ StartTimer
    \/ StopTimer
    \/ PauseTimer
    \/ ResumeTimer
    \/ IsRunning
    \/ Tick
    \/ GraceRevert

Spec == Init /\ [][Next]_vars

\* The calls and firings that change the timer (isRunning is a pure query).
FairNext ==
    \/ StartTimer
    \/ StopTimer
    \/ PauseTimer
    \/ ResumeTimer
    \/ Tick
    \/ GraceRevert

\* The browser fires a live interval and a pending timeout; the user's calls
\* are under no obligation.
FairSpec == Init /\ [][FairNext]_vars /\ WF_vars(Tick) /\ WF_vars(GraceRevert)

\* ------------------------------------------------------- the converter in use

\* The unit strings fed in: the table's units, the non-convertible markers,
\* units in other letter case, a unit the table lacks, and a property name
\* object literals inherit.
ConvUnits ==
    (DOMAIN conversionFactors) \cup {"pinch", "dash", "to taste", ""}
        \cup {"ML", "Cup", "Pinch", "stick", "constructor"}

\* The amounts fed in: the eighths around zero and one amount or more in each
\* tier of roundMeasurement, of either sign.
ConvAmounts ==
    {Mul(Num(k), Dec(0, 1250)) : k \in (0 - MaxEighths) .. MaxEighths}
        \cup {Num(100), Num(10), Dec(23, 7000), Dec(9, 9000), Dec(3, 1000), Dec(0, 6000),
              Dec(0, 3000), Neg(Dec(23, 7000)), Neg(Dec(3, 1000)), Neg(Dec(0, 6000)),
              Neg(Num(12))}

\* A caller holds a measurement of recipe data.
ConvInit ==
    /\ TimerInit
    /\ PrefsIdle
    /\ UiIdle
    /\ \E amount \in ConvAmounts, unit \in ConvUnits :
          /\ cvAmount = amount
          /\ cvUnit = unit
          /\ cvOrigAmount = amount
          /\ cvOrigUnit = unit
    /\ cvThrew = FALSE
    /\ cvText = ""
    /\ cvPath = <<>>
    /\ cvFromAmount = Num(0)
    /\ cvFromUnit = ""

\* The caller replaces the measurement held by the value a call returned; a
\* call that raised leaves the caller with what it held.
Holds(result, name) ==
    /\ cvThrew' = result.threw
    /\ cvAmount' = IF result.threw THEN cvAmount ELSE result.amount
    /\ cvUnit' = IF result.threw THEN cvUnit ELSE result.unit
    /\ cvFromAmount' = cvAmount
    /\ cvFromUnit' = cvUnit
    /\ cvPath' = Append(cvPath, name)
    /\ UNCHANGED <<cvText, cvOrigAmount, cvOrigUnit, vars, prefVars, uiVars>>

ConvertToImperial ==
    /\ Len(cvPath) < MaxConversions
    /\ Holds(convertToImperial(cvAmount, cvUnit), "toImperial")

ConvertToMetric ==
    /\ Len(cvPath) < MaxConversions
    /\ Holds(convertToMetric(cvAmount, cvUnit), "toMetric")

RoundMeasurement ==
    /\ Len(cvPath) < MaxConversions
    /\ Holds(Returned(roundMeasurement(cvAmount), cvUnit), "round")

ConvNext ==
    \/ ConvertToImperial
    \/ ConvertToMetric
    \/ RoundMeasurement

ConvSpec == ConvInit /\ [][ConvNext]_allVars

\* ------------------------------------------------------- the formatter in use

FormatUnits == {"cup", "tsp", "g"}

\* The amounts fed in: every thousandth from 0 up to MaxWhole + 0.999.
FormatAmounts == {Dec(w, 10 * t) : w \in 0 .. MaxWhole, t \in 0 .. 999}

FormatInit ==
    /\ TimerInit
    /\ PrefsIdle
    /\ UiIdle
    /\ \E amount \in FormatAmounts, unit \in FormatUnits :
          /\ cvAmount = amount
          /\ cvUnit = unit
          /\ cvOrigAmount = amount
          /\ cvOrigUnit = unit
    /\ cvThrew = FALSE
    /\ cvText = ""
    /\ cvPath = <<>>
    /\ cvFromAmount = Num(0)
    /\ cvFromUnit = ""

FormatMeasurement ==
    /\ cvPath = <<>>
    /\ \E err \in FloatErr : cvText' = formatMeasurement(cvAmount, cvUnit, err)
    /\ cvPath' = <<"format">>
    /\ cvFromAmount' = cvAmount
    /\ cvFromUnit' = cvUnit
    /\ UNCHANGED <<cvAmount, cvUnit, cvThrew, cvOrigAmount, cvOrigUnit, vars, prefVars, uiVars>>

FormatNext == FormatMeasurement

FormatSpec == FormatInit /\ [][FormatNext]_allVars


\* ------------------------------------------------------- the preferences in use

Themes == {<<"default">>, <<"high-contrast">>, <<"large-text">>}

\* What localStorage may hold under accessichef_text_size when the page
\* loads: nothing, or any string: the levels, numerals outside them, text
\* that is no numeral, text that starts with one.
StoredTextSizes ==
    {NoItem, Item(<<>>)} \cup {Item(NatChars(n)) : n \in 0 .. 7}
        \cup {Item(<<"-", "3">>), Item(<<"1", "2">>), Item(<<"a", "b", "c">>),
              Item(<<"3", "p", "x">>), Item(<<" ", "4">>), Item(<<"2", ".", "7">>)}

StoredThemes == {NoItem} \cup {Item(t) : t \in Themes}

PrefInit ==
    /\ TimerInit
    /\ ConverterIdle
    /\ UiIdle
    /\ PrefsFresh
    /\ storedTextSize \in StoredTextSizes
    /\ storedTheme \in StoredThemes

\* DOMContentLoaded: AccessibilityFeatures.init().
AppInit ==
    /\ ~initialised
    /\ PrefsBecome(init(Prefs))
    /\ initialised' = TRUE
    /\ prefOp' = "init"
    /\ UNCHANGED <<prefChanged, vars, convVars, uiVars>>

\* The user reloads the page or follows a link to another page of the site:
\* DOMContentLoaded runs AccessibilityFeatures.init() on a fresh object.
Reload ==
    /\ initialised
    /\ PrefsBecome(init(freshPage(Prefs)))
    /\ prefOp' = "reload"
    /\ UNCHANGED <<initialised, prefChanged, vars, convVars, uiVars>>

\* The step changes the theme or the text size in memory.
PrefChange == textSizeLevel' # textSizeLevel \/ currentTheme' # currentTheme

\* The increase button or Alt+I.
IncreaseTextSize ==
    /\ initialised
    /\ PrefsBecome(increaseTextSize(Prefs))
    /\ prefOp' = "increase"
    /\ prefChanged' = (prefChanged \/ PrefChange)
    /\ UNCHANGED <<initialised, vars, convVars, uiVars>>

\* The decrease button or Alt+D.
DecreaseTextSize ==
    /\ initialised
    /\ PrefsBecome(decreaseTextSize(Prefs))
    /\ prefOp' = "decrease"
    /\ prefChanged' = (prefChanged \/ PrefChange)
    /\ UNCHANGED <<initialised, vars, convVars, uiVars>>

\* A theme menu entry or Alt+C.
SetTheme ==
    /\ initialised
    /\ \E theme \in Themes : PrefsBecome(setTheme(Prefs, theme))
    /\ prefOp' = "setTheme"
    /\ prefChanged' = (prefChanged \/ PrefChange)
    /\ UNCHANGED <<initialised, vars, convVars, uiVars>>

PrefNext ==
    \/ AppInit
    \/ Reload
    \/ IncreaseTextSize
    \/ DecreaseTextSize
    \/ SetTheme

PrefSpec == PrefInit /\ [][PrefNext]_allVars

\* ------------------------------------------------------- the recipe data in use

\* The callers of loadAllRecipes.
Callers == {"initIndexPage", "performSearch", "loadRecipe", "filterByCategory"}

\* The first promise fulfilled fixes firstResolved.
FirstOf(array) == IF firstResolved = NoCache THEN array ELSE firstResolved

\* Page initialisation, a search, a filter change or a recipe lookup calls
\* loadAllRecipes.
LoadAllRecipes ==
    /\ Len(loads) < MaxLoads
    /\ \E caller \in Callers : RecipesBecome(loadAllRecipes(Recipes, caller))
    /\ loadedAfter' = Append(loadedAfter, firstResolved)
    /\ firstResolved' = FirstOf(recipeCache)
    /\ UNCHANGED <<fetchFailed, allVarsButRecipes>>

\* The response to a request arrives, ok or not.
Response ==
    /\ \E i \in DOMAIN loads, ok \in BOOLEAN :
          /\ loads[i].request = "sent"
          /\ RecipesBecome(onResponse(Recipes, i, ok))
          /\ fetchFailed' = (fetchFailed \/ ~ok)
    /\ UNCHANGED <<firstResolved, loadedAfter, allVarsButRecipes>>

\* The body of an ok response has been read and parsed.
Data ==
    /\ \E i \in DOMAIN loads :
          /\ loads[i].request = "json"
          /\ RecipesBecome(onData(Recipes, i))
          /\ firstResolved' = FirstOf(i)
    /\ UNCHANGED <<fetchFailed, loadedAfter, allVarsButRecipes>>

\* The network fails, or the body is no JSON.
Rejection ==
    /\ \E i \in DOMAIN loads :
          /\ loads[i].request \in {"sent", "json"}
          /\ RecipesBecome(onRejection(Recipes, i))
    /\ fetchFailed' = TRUE
    /\ UNCHANGED <<firstResolved, loadedAfter, allVarsButRecipes>>

RecipeNext ==
    \/ LoadAllRecipes
    \/ Response
    \/ Data
    \/ Rejection

RecipeSpec == Init /\ [][RecipeNext]_allVars

\* ------------------------------------------------------- the announcements in use

\* Two of the messages the controls announce; a repeated key press announces
\* the same one again.
Messages == {"Maximum text size reached", "Minimum text size reached"}

\* The i-th pending timeout is the one the browser runs next: it is due, and
\* no timeout registered before it is.
Due(i) ==
    /\ liveTimers[i].due = now
    /\ \A j \in 1 .. (i - 1) : liveTimers[j].due # now

\* A control or a key press announces.
Announce ==
    /\ Len(announcements) < MaxAnnouncements
    /\ now <= MaxClock
    /\ \A i \in DOMAIN liveTimers : liveTimers[i].due > now
    /\ \E message \in Messages, assertive \in BOOLEAN :
          /\ LiveBecomes(announceToScreenReaderAt(Live, message, assertive,
                                                  Len(announcements) + 1, now))
          /\ announcements' =
                 Append(announcements,
                        [message |-> message, assertive |-> assertive, shownAt |-> 0 - 1,
                         removedAt |-> 0 - 1, removedBy |-> "none", clearedBy |-> 0])
    /\ UNCHANGED <<now, holder, allVarsButLive>>

\* An outer timeout fires: the message enters its region, in place of the
\* announcement the region held.
Show ==
    /\ \E i \in DOMAIN liveTimers :
          /\ Due(i)
          /\ liveTimers[i].kind = "show"
          /\ LiveBecomes(showMessage(Live, i, now))
          /\ LET t == liveTimers[i]
                 r == RegionOf(t.assertive)
                 left == IF holder[r] # 0
                         THEN [announcements EXCEPT ![holder[r]].removedAt = now,
                                                    ![holder[r]].removedBy = "replaced"]
                         ELSE announcements
             IN  /\ announcements' = [left EXCEPT ![t.id].shownAt = now]
                 /\ holder' = [holder EXCEPT ![r] = t.id]
    /\ UNCHANGED <<now, allVarsButLive>>

\* An inner timeout fires.
Clear ==
    /\ \E i \in DOMAIN liveTimers :
          /\ Due(i)
          /\ liveTimers[i].kind = "clear"
          /\ LiveBecomes(clearMessage(Live, i))
          /\ LET t == liveTimers[i]
                 r == RegionOf(t.assertive)
             IN  IF liveText'[r] # liveText[r]
                 THEN /\ announcements' =
                            [announcements EXCEPT ![holder[r]].removedAt = now,
                                                  ![holder[r]].removedBy = "cleared",
                                                  ![holder[r]].clearedBy = t.id]
                      /\ holder' = [holder EXCEPT ![r] = 0]
                 ELSE UNCHANGED <<announcements, holder>>
    /\ UNCHANGED <<now, allVarsButLive>>

\* Time passes up to the next timeout due.
Wait ==
    /\ liveTimers # <<>>
    /\ \E i \in DOMAIN liveTimers :
          /\ \A j \in DOMAIN liveTimers : liveTimers[i].due <= liveTimers[j].due
          /\ liveTimers[i].due > now
          /\ now' = liveTimers[i].due
    /\ UNCHANGED <<liveText, liveTimers, announcements, holder, allVarsButLive>>

\* The user pauses while no timeout falls due.
Pause ==
    /\ now + UserPause <= MaxClock
    /\ \A i \in DOMAIN liveTimers : liveTimers[i].due >= now + UserPause
    /\ now' = now + UserPause
    /\ UNCHANGED <<liveText, liveTimers, announcements, holder, allVarsButLive>>

LiveNext ==
    \/ Announce
    \/ Show
    \/ Clear
    \/ Wait
    \/ Pause

LiveSpec == Init /\ [][LiveNext]_allVars

\* ------------------------------------------------------- the recipe detail page in use

\* The recipes displayed: one to MaxSteps instructions, each with a timer of
\* some minutes or with none.
RecipeInstructions ==
    UNION {[1 .. n -> 0 .. MaxMinutes] : n \in 1 .. MaxSteps}

\* displayRecipeDetails has rendered a recipe and initStepByStepMode has run.
StepInit ==
    /\ TimerInit
    /\ ConverterIdle
    /\ PrefsIdle
    /\ RecipesIdle
    /\ LiveIdle
    /\ UnitsIdle
    /\ StepsFresh
    /\ instructions \in RecipeInstructions

\* The page calls RecipeTimer.startTimer with a new closure as the callback.
TimerStarts(seconds, displayElement) ==
    /\ Becomes(startTimer(Cur, seconds, displayElement, gen + 1))
    /\ startedWith' = seconds
    /\ startedFrom' = TimerState(Cur)
    /\ gen' = gen + 1
    /\ ticks' = 0
    /\ pausedSince' = FALSE
    /\ stoppedSince' = FALSE
    /\ lastOp' = "start"

\* The page calls RecipeTimer.stopTimer.
TimerStops ==
    /\ Becomes(stopTimer(Cur))
    /\ stoppedSince' = TRUE
    /\ lastOp' = "stop"
    /\ UNCHANGED <<gen, startedWith, startedFrom, ticks, pausedSince>>

\* A click on step-by-step-toggle.
ModeToggle ==
    /\ StepsBecome(onModeToggle(Steps, instructions))
    /\ IF isStepByStep(Steps)
       THEN TimerStops /\ stepOp' = "leave"
       ELSE UNCHANGED <<progVars, gen, startedWith, startedFrom, ticks, pausedSince,
                        stoppedSince, lastOp>>
            /\ stepOp' = "enter"
    /\ UNCHANGED <<queryResult, instructions, inlineDisplay, notifications, callbacks,
                   allVarsButSteps>>

\* A click on prev-step: the step view is shown and the control enabled.
PrevStep ==
    /\ ~stepViewHidden
    /\ ~prevDisabled
    /\ StepsBecome(onPrevStep(Steps, instructions))
    /\ stepOp' = "prev"
    /\ UNCHANGED <<vars, instructions, inlineDisplay, notifications, callbacks,
                   allVarsButSteps>>

\* A click on next-step: the step view is shown and the control enabled.
NextStep ==
    /\ ~stepViewHidden
    /\ ~nextDisabled
    /\ StepsBecome(onNextStep(Steps, instructions))
    /\ stepOp' = IF currentStep < Len(instructions) - 1 THEN "next" ELSE "finish"
    /\ UNCHANGED <<vars, instructions, inlineDisplay, notifications, callbacks,
                   allVarsButSteps>>

\* A click on timer-toggle: the step view is shown and the control enabled.
TimerToggle ==
    /\ ~stepViewHidden
    /\ ~toggleDisabled
    /\ queryResult' = isRunning(Cur)
    /\ IF isRunning(Cur)
       THEN /\ TimerStops
            /\ StepsBecome([Steps EXCEPT !.toggleText = StartLabel(toggleTime)])
            /\ stepOp' = "toggleStop"
            /\ UNCHANGED callbacks
       ELSE /\ gen < MaxStarts
            /\ nextTimerId <= MaxTimerIds
            /\ TimerStarts(toggleTime * 60, "timer-display")
            /\ StepsBecome([Steps EXCEPT !.toggleText = "Stop Timer"])
            /\ stepOp' = "toggleStart"
            /\ callbacks' = [callbacks EXCEPT ![gen + 1] = "toggle"]
    /\ UNCHANGED <<instructions, inlineDisplay, notifications, allVarsButSteps>>

\* A click on the set-timer button of an instruction in the list of all steps.
InlineTimer ==
    /\ ~allStepsHidden
    /\ gen < MaxStarts
    /\ nextTimerId <= MaxTimerIds
    /\ \E i \in DOMAIN instructions :
          /\ instructions[i] # 0
          /\ TimerStarts(instructions[i] * 60, "inline-timer-display")
          /\ StepsBecome(announce(Steps, ToString(instructions[i]) \o " minute timer started"))
    /\ inlineDisplay' = TRUE
    /\ callbacks' = [callbacks EXCEPT ![gen + 1] = "inline"]
    /\ stepOp' = "inline"
    /\ UNCHANGED <<queryResult, instructions, notifications, allVarsButSteps>>

\* A live interval schedule fires; on completion the timer invokes the closure
\* it was handed.
StepTick ==
    /\ \E id \in intervals : Becomes(tick(Cur))
    /\ ticks' = ticks + 1
    /\ lastOp' = "tick"
    /\ LET ran == {g \in Countdowns : invoked'[g] # invoked[g]} IN
       IF \E g \in ran : callbacks[g] = "toggle"
       THEN /\ StepsBecome(onToggleTimerComplete(Steps))
            /\ UNCHANGED notifications
       ELSE IF \E g \in ran : callbacks[g] = "inline"
       THEN /\ StepsBecome(announce(Steps, "Timer complete!"))
            /\ notifications' = notifications + 1
       ELSE /\ StepsBecome(Steps)
            /\ UNCHANGED notifications
    /\ stepOp' = "tick"
    /\ UNCHANGED <<gen, startedWith, startedFrom, pausedSince, stoppedSince, queryResult,
                   instructions, inlineDisplay, callbacks, allVarsButSteps>>

\* The 5 s timeout of a 'Timer Complete!' alert removes it.
RemoveNotification ==
    /\ notifications > 0
    /\ notifications' = notifications - 1
    /\ stepOp' = "remove"
    /\ UNCHANGED <<vars, instructions, currentStep, allStepsHidden, stepViewHidden, modeText,
                   stepNumber, prevDisabled, nextDisabled, nextText, toggleDisabled,
                   toggleTime, toggleText, inlineDisplay, stepAnnounced, callbacks,
                   allVarsButSteps>>

StepNext ==
    \/ ModeToggle
    \/ PrevStep
    \/ NextStep
    \/ TimerToggle
    \/ InlineTimer
    \/ StepTick
    \/ GraceRevert
    \/ RemoveNotification

StepSpec == StepInit /\ [][StepNext]_allVars

\* ------------------------------------------------------- the unit buttons in use

\* The amounts and units of recipe data: of each rounding tier and with a
\* fraction no tier keeps; metric, imperial and self-mapped units, a marker, a
\* unit the table lacks and one whose conversion raises.
IngredientAmounts == {Num(1), Dec(0, 3000), Num(250), Dec(2, 5000)}

IngredientUnits == {"g", "ml", "cup", "tbsp", "pinch", "stick", "constructor"}

Ingredient == [amount : IngredientAmounts, unit : IngredientUnits]

\* A recipe has been fetched; which button the markup marks is the page's.
UnitInit ==
    /\ TimerInit
    /\ ConverterIdle
    /\ PrefsIdle
    /\ RecipesIdle
    /\ LiveIdle
    /\ StepsIdle
    /\ ingredients \in UNION {[1 .. n -> Ingredient] : n \in 1 .. MaxIngredients}
    /\ items = <<>>
    /\ unitsReady = FALSE
    /\ metricActive \in BOOLEAN
    /\ imperialActive \in BOOLEAN
    /\ metricPressed = (IF metricActive THEN "true" ELSE "false")
    /\ imperialPressed = (IF imperialActive THEN "true" ELSE "false")
    /\ unitAnnounced = ""
    /\ unitOp = "none"
    /\ unitClicks = 0

\* displayRecipeDetails: the list is built; when no conversion raised,
\* initMeasurementConversion attaches the listeners.
DisplayRecipeDetails ==
    /\ unitOp = "none"
    /\ items = <<>>
    /\ items' = renderIngredients(ingredients)
    /\ unitsReady' = (Len(items') = Len(ingredients))
    /\ unitOp' = "render"
    /\ UNCHANGED <<ingredients, metricActive, imperialActive, metricPressed,
                   imperialPressed, unitAnnounced, unitClicks, allVarsButUnits>>

MetricClick ==
    /\ unitsReady
    /\ unitClicks < MaxClicks
    /\ UnitsBecome(onMetricClick(Units))
    /\ unitOp' = "metric"
    /\ unitClicks' = unitClicks + 1
    /\ UNCHANGED <<ingredients, unitsReady, allVarsButUnits>>

ImperialClick ==
    /\ unitsReady
    /\ unitClicks < MaxClicks
    /\ UnitsBecome(onImperialClick(Units))
    /\ unitOp' = "imperial"
    /\ unitClicks' = unitClicks + 1
    /\ UNCHANGED <<ingredients, unitsReady, allVarsButUnits>>

UnitNext ==
    \/ DisplayRecipeDetails
    \/ MetricClick
    \/ ImperialClick

UnitSpec == UnitInit /\ [][UnitNext]_allVars

\* ------------------------------------------------------- claims

\* C1: in every reachable state at most one recurring tick schedule is live,
\* and it is the one timerInterval refers to; a startTimer issued while a
\* countdown runs has cancelled the earlier schedule.
TheoremC1 ==
    /\ Cardinality(intervals) <= 1
    /\ intervals = IF timerInterval = NoInterval THEN {} ELSE {timerInterval}

\* A second startTimer was issued while the first countdown was running.
WitnessC1 ==
    /\ gen = 2
    /\ lastOp = "start"
    /\ startedFrom = "Running"
    /\ intervals = {timerInterval}

\* C2: only the callback of the latest startTimer is ever invoked, so the
\* callback of a countdown replaced while Running or Paused never runs
\* afterwards; and a startTimer step leaves secondsRemaining at its own
\* seconds argument.
TheoremC2 ==
    [][ /\ \A g \in Countdowns : invoked'[g] # invoked[g] => g = gen /\ gen' = gen
        /\ lastOp' = "start" /\ gen' # gen => secondsRemaining' = startedWith'
      ]_vars

\* The second countdown replaced a Running or Paused first one that had a
\* callback, and ran to completion: its own callback ran, the first's did not.
WitnessC2 ==
    /\ gen = 2
    /\ startedFrom \in {"Running", "Paused"}
    /\ completionCallback = 2
    /\ invoked[2] = 1
    /\ invoked[1] = 0
    /\ ticks >= 1

\* The latest countdown ran down to zero by ticking and stopTimer was not called.
ReachedZero ==
    /\ gen >= 1
    /\ ~stoppedSince
    /\ ticks >= 1
    /\ secondsRemaining <= 0

\* C3: the callback of each startTimer is invoked at most once, and exactly
\* once when its countdown has reached zero without being stopped or replaced.
TheoremC3 ==
    /\ \A g \in Countdowns : invoked[g] <= 1
    /\ ReachedZero /\ completionCallback = gen => invoked[gen] = 1

\* A completed countdown on which pause and resume were called afterwards.
WitnessC3 ==
    /\ ReachedZero
    /\ completionCallback = gen
    /\ invoked[gen] = 1
    /\ pausedSince
    /\ lastOp = "resume"


\* C4: stopTimer called in any timer state leaves the timer Idle: no tick
\* schedule is pending and secondsRemaining is 0 (stated for countdowns started
\* with at least one second, where Paused is a state of the spec's machine).
CounterexampleC4 ==
    lastOp = "stop" /\ startedWith >= 1 =>
        /\ timerInterval = NoInterval
        /\ intervals = {}
        /\ secondsRemaining = 0

\* C5: once stopTimer has been called on a countdown, no later pauseTimer,
\* resumeTimer, stopTimer or tick invokes a callback until a new startTimer.
CounterexampleC5 ==
    [][stoppedSince => invoked' = invoked]_vars

\* C6: pauseTimer from Running cancels the tick schedule and leaves
\* secondsRemaining, the display target and the callback as they were; while no
\* schedule is live nothing but a new startTimer changes secondsRemaining; and
\* resumeTimer from Paused creates a schedule with secondsRemaining as held.
TheoremC6 ==
    [][ /\ lastOp' = "pause" /\ isRunning(Cur) =>
              /\ intervals' = {}
              /\ timerInterval' = NoInterval
              /\ secondsRemaining' = secondsRemaining
              /\ currentTimerDisplay' = currentTimerDisplay
              /\ completionCallback' = completionCallback
        /\ ~isRunning(Cur) /\ lastOp' # "start" => secondsRemaining' = secondsRemaining
        /\ lastOp' = "resume" /\ TimerState(Cur) = "Paused" =>
              /\ intervals' # {}
              /\ secondsRemaining' = secondsRemaining
      ]_vars

\* A countdown paused after a tick and resumed: it runs again, from the
\* value it held, which is below the seconds it was started with.
WitnessC6 ==
    /\ lastOp = "resume"
    /\ pausedSince
    /\ ~stoppedSince
    /\ ticks >= 1
    /\ isRunning(Cur)
    /\ secondsRemaining = startedWith - ticks
    /\ secondsRemaining > 0

\* The latest countdown has been neither paused nor stopped (a replaced one is
\* no longer the latest).
Undisturbed == gen >= 1 /\ ~pausedSince /\ ~stoppedSince

\* The tick on which a countdown started with n seconds completes.
CompletionTick(n) == IF n >= 1 THEN n ELSE 1

\* C7: for a countdown that is not paused, stopped or replaced, before its
\* completion the display shows MM:SS of n - k after k ticks (k = 0 right
\* after startTimer), and it completes (callback invoked once, schedule
\* cancelled) on exactly tick n when n >= 1 and on the first tick when n <= 0.
CounterexampleC7 ==
    Undisturbed =>
        /\ ticks <= CompletionTick(startedWith)
        /\ ticks < CompletionTick(startedWith) =>
              /\ isRunning(Cur)
              /\ invoked[gen] = 0
              /\ textContent[currentTimerDisplay] = FormatTime(startedWith - ticks)
        /\ ticks = CompletionTick(startedWith) =>
              /\ ~isRunning(Cur)
              /\ intervals = {}
              /\ completionCallback = gen => invoked[gen] = 1

\* C8: secondsRemaining is >= 0 in every reachable state, for every
\* totalSeconds >= 0 passed to startTimer.
CounterexampleC8 ==
    startedWith >= 0 => secondsRemaining >= 0


\* The timer is Idle after the grace period: no schedule, resumeTimer would
\* change nothing, no revert is pending, and the display shows 00:00 without
\* the done classes.
IdleAfterGrace ==
    /\ currentTimerDisplay # NoDisplay
    /\ ~isRunning(Cur)
    /\ intervals = {}
    /\ resumeTimer(Cur) = Cur
    /\ timeouts = 0
    /\ textContent[currentTimerDisplay] = "00:00"
    /\ classList[currentTimerDisplay] \cap {"bg-success", "text-white"} = {}

TheoremC10 ==
    /\ [](/\ isRunning(Cur) <=> intervals # {}
          /\ lastOp = "isRunning" => (queryResult <=> intervals # {})
          /\ lastOp = "start" => isRunning(Cur)
          /\ lastOp = "resume" /\ secondsRemaining > 0 => isRunning(Cur)
          /\ lastOp \in {"init", "pause", "stop"} => ~isRunning(Cur)
          /\ lastOp = "tick" /\ secondsRemaining <= 0 => ~isRunning(Cur))
    /\ [][lastOp' = "isRunning" => progVars' = progVars]_vars

\* isRunning() has answered true on a resumed countdown.
WitnessC10 ==
    /\ lastOp = "isRunning"
    /\ queryResult
    /\ pausedSince
    /\ nextTimerId > gen + 1

\* C11: an operation requested where it is not defined is a silent no-op:
\* pauseTimer when no tick schedule is live, and resumeTimer when one is live
\* or when secondsRemaining is not above zero, change nothing of the timer
\* (secondsRemaining, the schedules, the displays, the callback).  Neither
\* method has a statement that can throw on these paths.
TheoremC11 ==
    [][/\ (lastOp' = "pause" /\ ~isRunning(Cur)) => progVars' = progVars
       /\ (lastOp' = "resume" /\ (isRunning(Cur) \/ secondsRemaining <= 0))
             => progVars' = progVars]_vars

\* resumeTimer was called on a running countdown that has ticked and has time
\* left, and the countdown still has its one schedule.
WitnessC11 ==
    /\ lastOp = "resume"
    /\ ~pausedSince
    /\ ~stoppedSince
    /\ ticks >= 1
    /\ secondsRemaining > 0
    /\ intervals = {timerInterval}
    /\ nextTimerId = gen + 1

\* The call made last, and whether it was one of the two conversions.
LastCall == IF cvPath = <<>> THEN "none" ELSE cvPath[Len(cvPath)]

Converted == LastCall \in {"toImperial", "toMetric"}

\* C12: for every metric unit (g, kg, ml, l) and every non-negative amount,
\* convertToMetric applied to the result of convertToImperial returns the
\* original unit and an amount within the rounding tolerance (1) of the
\* original amount.
CounterexampleC12 ==
    (/\ cvPath = <<"toImperial", "toMetric">>
     /\ cvOrigUnit \in {"g", "kg", "ml", "l"}
     /\ ~cvOrigAmount.neg)
        => /\ ~cvThrew
           /\ Cmp(Abs(Sub(cvAmount, cvOrigAmount)), Num(1)) <= 0

\* C13: for every convertible unit and non-negative amount, the result of a
\* conversion denotes the physical quantity of its argument up to the rounding
\* policy: brought to the base unit of the class by the table's toMetric
\* scales, result and argument differ by no more than half a target unit, the
\* widest step of the rounding policy.
CounterexampleC13 ==
    (/\ Len(cvPath) = 1
     /\ Converted
     /\ ~cvFromAmount.neg
     /\ toLowerCase(cvFromUnit) \in DOMAIN conversionFactors)
        => LET source == conversionFactors[toLowerCase(cvFromUnit)].toMetric
               target == conversionFactors[cvUnit].toMetric
           IN  Cmp(Abs(Sub(Mul(cvAmount, target), Mul(cvFromAmount, source))),
                   Mul(Half, target)) <= 0

\* C14: the converter never raises: for every unit string and amount a
\* conversion returns a value, and for a unit absent from the factor table
\* that value is the argument unchanged.
CounterexampleC14 ==
    Converted
        => /\ ~cvThrew
           /\ toLowerCase(cvFromUnit) \notin DOMAIN conversionFactors
                 => cvAmount = cvFromAmount /\ cvUnit = cvFromUnit

\* C15: for each non-convertible marker unit (pinch, dash, to taste, the empty
\* string) and any amount, a conversion in either direction returns exactly
\* the amount and unit it was given, unrounded, and converting that result
\* again returns it again.
TheoremC15 ==
    /\ (Converted /\ cvFromUnit \in {"pinch", "dash", "to taste", ""})
          => ~cvThrew /\ cvAmount = cvFromAmount /\ cvUnit = cvFromUnit
    /\ (/\ cvOrigUnit \in {"pinch", "dash", "to taste", ""}
        /\ \A i \in DOMAIN cvPath : cvPath[i] \in {"toImperial", "toMetric"})
          => ~cvThrew /\ cvAmount = cvOrigAmount /\ cvUnit = cvOrigUnit

\* 0.3 to taste, an amount no rounding tier would keep, has been converted to
\* imperial and the result converted again, and is still 0.3 to taste.
WitnessC15 ==
    /\ Len(cvPath) >= 2
    /\ cvPath[1] = "toImperial"
    /\ cvPath[2] \in {"toImperial", "toMetric"}
    /\ cvOrigUnit = "to taste"
    /\ cvOrigAmount = Dec(0, 3000)
    /\ cvAmount = Dec(0, 3000)
    /\ cvUnit = "to taste"

\* C16: roundMeasurement rounds by the magnitude of its argument: to the
\* nearest integer when |value| >= 10, to the nearest 0.25 when
\* 1 <= |value| < 10, to the nearest 0.125 when |value| < 1, for values of
\* either sign.  (perUnit is the count of steps in a unit: the result is a
\* whole number of steps and lies within half a step of the argument.)
CounterexampleC16 ==
    LastCall = "round"
        => LET magnitude == Abs(cvFromAmount)
               perUnit == IF Cmp(magnitude, Num(10)) >= 0 THEN Num(1)
                          ELSE IF Cmp(magnitude, Num(1)) >= 0 THEN Num(4)
                          ELSE Num(8)
           IN  /\ Mul(cvAmount, perUnit).scale = 0
               /\ Cmp(Mul(Abs(Sub(cvAmount, cvFromAmount)), Mul(Num(2), perUnit)),
                      Num(1)) <= 0

\* C17: for every convertible source unit the unit returned is of the opposite
\* system and the same class: convertToImperial never returns a metric unit,
\* convertToMetric never returns an imperial unit, and a volume stays a volume.
CounterexampleC17 ==
    (Converted /\ toLowerCase(cvFromUnit) \in DOMAIN conversionFactors)
        => /\ LastCall = "toImperial" => cvUnit \notin {"ml", "l", "g", "kg"}
           /\ LastCall = "toMetric"
                 => cvUnit \notin {"floz", "cup", "pint", "quart", "oz", "lb"}
           /\ isVolumeUnit(cvUnit) <=> isVolumeUnit(toLowerCase(cvFromUnit))

\* The integer part and the thousandths of the fraction of a formatted amount.
WholeOf(x) == IF IntLimbs(x) = <<>> THEN 0 ELSE IntLimbs(x)[1]

ThousandthsOf(x) == IF x.scale = 0 THEN 0 ELSE x.mag[1] \div 10

\* The text that shows the fraction as s after the integer part, if any.
Shows(s) ==
    cvText = (IF WholeOf(cvFromAmount) > 0 THEN ToString(WholeOf(cvFromAmount)) \o " " ELSE "")
                 \o s \o " " \o cvUnit

\* The two-decimal numerals of t thousandths: the nearest hundredth, either
\* neighbour when t lies midway in decimal (a double never does).
NumeralsOf(t) ==
    {IF n >= 100 THEN "1.00" ELSE "0." \o PadStart2(n) :
        n \in {k \in {t \div 10, t \div 10 + 1} :
                  (t % 10 <= 5 /\ k = t \div 10) \/ (t % 10 >= 5 /\ k = t \div 10 + 1)}}

\* Three times the distance, in thousandths, between the fraction and a centre
\* given as three times its thousandths (so that 1/3 and 2/3 are exact).
Dist3(t, centre) == IF 3 * t >= centre.at3 THEN 3 * t - centre.at3 ELSE centre.at3 - 3 * t

\* A fraction strictly within 0.01 of a centre is shown as that centre's glyph,
\* one farther than 0.01 from every centre as its two-decimal numeral, and one
\* exactly 0.01 from a centre, where the doubles decide, as either.
GlyphRule(centres) ==
    (LastCall = "format" /\ ThousandthsOf(cvFromAmount) # 0)
        => LET t == ThousandthsOf(cvFromAmount) IN
           \/ \E c \in centres : Dist3(t, c) < 30 /\ Shows(c.glyph)
           \/ /\ \A c \in centres : Dist3(t, c) >= 30
              /\ \/ \E c \in centres : Dist3(t, c) = 30 /\ Shows(c.glyph)
                 \/ \E s \in NumeralsOf(t) : Shows(s)

\* The canonical values 1/8 .. 7/8.
CanonicalCentres ==
    {[glyph |-> "1/8", at3 |-> 375], [glyph |-> "1/4", at3 |-> 750],
     [glyph |-> "1/3", at3 |-> 1000], [glyph |-> "3/8", at3 |-> 1125],
     [glyph |-> "1/2", at3 |-> 1500], [glyph |-> "5/8", at3 |-> 1875],
     [glyph |-> "2/3", at3 |-> 2000], [glyph |-> "3/4", at3 |-> 2250],
     [glyph |-> "7/8", at3 |-> 2625]}

\* The same, with 0.33 and 0.333 in place of 1/3, 0.67 and 0.666 in place of 2/3.
DecimalCentres ==
    {c \in CanonicalCentres : c.glyph \notin {"1/3", "2/3"}}
        \cup {[glyph |-> "1/3", at3 |-> 990], [glyph |-> "1/3", at3 |-> 999],
              [glyph |-> "2/3", at3 |-> 2010], [glyph |-> "2/3", at3 |-> 1998]}

\* C18 as stated: formatMeasurement shows the fraction as a glyph exactly when
\* it is within 0.01 of the glyph's canonical value (1/8, 1/4, 1/3, 3/8, 1/2,
\* 5/8, 2/3, 3/4, 7/8), and as a two-decimal numeral otherwise, for every
\* thousandth.
CounterexampleC18 == GlyphRule(CanonicalCentres)

\* C18 amended: the same with the thirds measured from the decimals the code
\* compares against: 1/3 is shown within 0.01 of 0.33 or of 0.333, 2/3 within
\* 0.01 of 0.67 or of 0.666.
TheoremC18 == GlyphRule(DecimalCentres)

\* 0.321, farther than 0.01 from 1/3 and within 0.01 of 0.33, is shown as 1/3.
WitnessC18 ==
    /\ LastCall = "format"
    /\ cvFromAmount = Dec(0, 3210)
    /\ cvText = "1/3 " \o cvUnit

Renderings ==
    {c.glyph : c \in CanonicalCentres} \cup UNION {NumeralsOf(10 * n) : n \in 0 .. 100}

\* C19: the output is the integer part (left out when zero), the fraction's
\* rendering (left out when the amount is whole), a space and the unit:
\* 1.5 cup gives "1 1/2 cup", 0.25 tsp gives "1/4 tsp", 2 g gives "2 g".
TheoremC19 ==
    LastCall = "format"
        => LET w == WholeOf(cvFromAmount)
               t == ThousandthsOf(cvFromAmount)
           IN  /\ t = 0 => cvText = ToString(w) \o " " \o cvUnit
               /\ (t # 0 /\ w > 0)
                     => \E r \in Renderings : cvText = ToString(w) \o " " \o r \o " " \o cvUnit
               /\ (t # 0 /\ w = 0) => \E r \in Renderings : cvText = r \o " " \o cvUnit
               /\ (cvFromAmount = Dec(1, 5000) /\ cvUnit = "cup") => cvText = "1 1/2 cup"
               /\ (cvFromAmount = Dec(0, 2500) /\ cvUnit = "tsp") => cvText = "1/4 tsp"
               /\ (cvFromAmount = Num(2) /\ cvUnit = "g") => cvText = "2 g"

\* 1.5 cup has been formatted.
WitnessC19 ==
    /\ LastCall = "format"
    /\ cvFromAmount = Dec(1, 5000)
    /\ cvText = "1 1/2 cup"

\* The text-size classes the body carries.
TextSizeClasses ==
    bodyClasses \cap ({TextSizeClass(Number(n)) : n \in (0 - 3) .. 12} \cup {TextSizeClass(NaN)})

\* C20: once init has loaded whatever string localStorage holds,
\* textSizeLevel is an integer in minTextSize .. maxTextSize in every state
\* under any sequence of increaseTextSize and decreaseTextSize, and the body
\* carries exactly one text-size-N class, with N the level.
CounterexampleC20 ==
    initialised
        => /\ textSizeLevel \in {Number(n) : n \in minTextSize .. maxTextSize}
           /\ TextSizeClasses = {TextSizeClass(textSizeLevel)}

\* C27: while a countdown is Running or Paused, its display target shows the
\* MM:SS rendering of the current secondsRemaining; the grace-period revert
\* of an earlier completed countdown never overwrites it.
CounterexampleC27 ==
    (TimerState(Cur) \in {"Running", "Paused"} /\ currentTimerDisplay # NoDisplay)
        => textContent[currentTimerDisplay] = FormatTime(secondsRemaining)

\* C29: for the units mapped to themselves (tbsp, tsp) a conversion in either
\* direction returns the same unit and the input amount changed only by the
\* rounding policy (1 tbsp converts to 1 tbsp).
CounterexampleC29 ==
    (Converted /\ cvFromUnit \in {"tbsp", "tsp"})
        => /\ ~cvThrew
           /\ cvUnit = cvFromUnit
           /\ cvAmount = roundMeasurement(cvFromAmount)

\* The two localStorage items hold the theme and the text size in memory, as
\* savePreferences writes them.
Saved ==
    /\ storedTheme = Item(currentTheme)
    /\ storedTextSize = Item(NumberChars(textSizeLevel))

\* C30: once setTheme, increaseTextSize or decreaseTextSize has changed the
\* theme or the text size, the two stored items equal the in-memory theme and
\* text size after every further such call, and a page reload (loadPreferences
\* on a fresh object) restores exactly the theme and text size in effect: the
\* fields after the reload are still the ones the items were written from.
TheoremC30 ==
    prefChanged
        => /\ Saved
           /\ loadPreferences(freshPage(Prefs)).currentTheme = currentTheme
           /\ loadPreferences(freshPage(Prefs)).textSizeLevel = textSizeLevel

\* The text size was raised to 4 and the theme set to high contrast, and the
\* page has been reloaded since: both are in effect again.
WitnessC30 ==
    /\ prefOp = "reload"
    /\ prefChanged
    /\ textSizeLevel = Number(4)
    /\ currentTheme = <<"high-contrast">>
    /\ TextSizeClass(Number(4)) \in bodyClasses
    /\ themeHref = <<"css/themes/", <<"high-contrast">>, ".css">>

\* C22: as long as no fetch fails, data/recipes.json is requested at most
\* once, whatever the interleaving of loadAllRecipes calls with responses,
\* calls made while the first request is in flight included.
CounterexampleC22 ==
    ~fetchFailed => fetchCount <= 1

\* C23: once a loadAllRecipes promise has been fulfilled, every call made
\* later issues no fetch and is fulfilled with that same array; a failed fetch
\* rejects its promise and sets no cache, so that while every fetch so far has
\* failed the cache is empty and each call fetches.
CounterexampleC23 ==
    /\ \A i \in DOMAIN loads :
          loadedAfter[i] # NoCache
              => /\ ~loads[i].fetched
                 /\ loads[i].promise = "fulfilled"
                 /\ loads[i].value = loadedAfter[i]
    /\ \A i \in DOMAIN loads :
          loads[i].request = "failed" => loads[i].promise = "rejected"
    /\ (\A i \in DOMAIN loads : loads[i].promise = "rejected") => recipeCache = NoCache
    /\ \A i \in DOMAIN loads :
          (\A j \in 1 .. (i - 1) : loads[j].promise = "rejected") => loads[i].fetched

\* C24: the clearing timeout of an announcement never clears a live region
\* that holds a later announcement: an announcement leaves its region either
\* replaced by a newer one or cleared by its own timeout, a full clear delay
\* (3 s polite, 5 s assertive) after it was shown, also when two announcements
\* carry the same text.
CounterexampleC24 ==
    \A k \in DOMAIN announcements :
        announcements[k].removedBy = "cleared"
            => /\ announcements[k].clearedBy = k
               /\ announcements[k].removedAt - announcements[k].shownAt
                     >= ClearDelay(announcements[k].assertive)

\* The step-by-step view is the one shown.
StepMode == allStepsHidden /\ ~stepViewHidden

LastStep == Len(instructions) - 1

\* C25: in step-by-step mode on the last step the user can activate the
\* Next/Finish control (and doing so returns the page to the list of all
\* steps): the control is enabled there.
CounterexampleC25 ==
    (StepMode /\ currentStep = LastStep) => ~nextDisabled

WitnessC26Last ==
    /\ Len(instructions) = 2
    /\ stepOp = "next"
    /\ currentStep = 1
    /\ ~prevDisabled
    /\ nextDisabled

\* C28: in step-by-step mode the timer toggle shows 'Stop Timer' exactly when
\* RecipeTimer.isRunning() is true, after every sequence of timer-toggle
\* clicks, step navigation, mode toggles, inline timer starts and timer
\* completions; so a running timer can be stopped from the toggle, which is
\* enabled.
CounterexampleC28 ==
    StepMode
        => /\ toggleText = "Stop Timer" <=> isRunning(Cur)
           /\ isRunning(Cur) => ~toggleDisabled

\* C21: both unit values of each ingredient are stored once, at render time;
\* after any sequence of clicks on the two buttons every ingredient shows its
\* original recipe amount and unit if the last click was metric, and
\* convertToImperial of the original amount and unit if it was imperial (no
\* rounding drift however often the units are toggled), and exactly one of
\* the two buttons is marked active and pressed, the one clicked last.
TheoremC21 ==
    /\ unitOp \in {"render", "metric", "imperial"}
          => \A i \in DOMAIN items :
                LET imperial == convertToImperial(ingredients[i].amount, ingredients[i].unit)
                IN  /\ items[i].metricAmount = AmountText(ingredients[i].amount)
                    /\ items[i].metricUnit = ingredients[i].unit
                    /\ items[i].imperialAmount = AmountText(imperial.amount)
                    /\ items[i].imperialUnit = imperial.unit
    /\ unitOp \in {"metric", "imperial"}
          => /\ DOMAIN items = DOMAIN ingredients
             /\ \A i \in DOMAIN items :
                   LET imperial == convertToImperial(ingredients[i].amount, ingredients[i].unit)
                   IN  IF unitOp = "metric"
                       THEN /\ items[i].amountText = AmountText(ingredients[i].amount)
                            /\ items[i].unitText = ingredients[i].unit
                       ELSE /\ items[i].amountText = AmountText(imperial.amount)
                            /\ items[i].unitText = imperial.unit
             /\ metricActive = (unitOp = "metric")
             /\ imperialActive = (unitOp = "imperial")
             /\ metricPressed = (IF unitOp = "metric" THEN "true" ELSE "false")
             /\ imperialPressed = (IF unitOp = "imperial" THEN "true" ELSE "false")

\* 0.3 ml and 1 tbsp after three clicks, the last on imperial: the list shows
\* 0.25 floz and 7.5 tbsp, what convertToImperial returned at render time, and
\* the datasets still hold 0.3 and 1.
WitnessC21 ==
    /\ unitClicks = MaxClicks
    /\ unitOp = "imperial"
    /\ Len(items) = 2
    /\ ingredients[1] = [amount |-> Dec(0, 3000), unit |-> "ml"]
    /\ ingredients[2] = [amount |-> Num(1), unit |-> "tbsp"]
    /\ items[1].amountText = "0.25"
    /\ items[1].unitText = "floz"
    /\ items[1].metricAmount = "0.3"
    /\ items[2].amountText = "7.5"
    /\ items[2].unitText = "tbsp"
    /\ items[2].metricAmount = "1"
    /\ imperialActive
    /\ ~metricActive

====
